---- MODULE Spec2Model ----
(***************************************************************************)
(* Model of the two-persona dialogue stream: the DialogManager (turn       *)
(* queue, bounded history, reply sanitizer, emotion tag extractor) with    *)
(* the GigaChatManager.generate_response retry wrapper it calls.           *)
(*                                                                         *)
(* A text is a sequence of Unicode code points (Python str); the string    *)
(* literals of the program are written out as code points, with the        *)
(* literal in the comment above each one.                                  *)
(***************************************************************************)
EXTENDS Integers, Sequences, FiniteSets, TLC

VARIABLES
  turn_order,      \* DialogManager.turn_order (fixed at construction)
  max_history,     \* DialogManager.max_history (fixed at construction)
  agent_queue,     \* DialogManager.agent_queue (deque)
  history,         \* DialogManager.history (list of entries)
  total_tokens,    \* DialogManager.total_tokens
  reply_count,     \* DialogManager.reply_count
  start_time,      \* DialogManager.start_time
  clock,           \* logical time: what datetime.now() returns
  last,            \* the last call on the manager and what it gave back
  served,          \* ids returned by get_next_agent since construction/reset
  appended,        \* entries given to history.append since construction/reset
  returned_calls,  \* get_next_reply calls that returned since construction/reset
  returned_tokens, \* sum of the token counts those calls returned
  reply_calls,     \* get_next_reply calls made since construction/reset
  all_failed,      \* every one of those calls had a failing generation call
  fix_text,        \* _validate_and_fix_reply applied alone: its text argument
  fix_agent,       \*   its agent_id argument
  fix_done,        \*   whether it has been applied
  fix_out,         \*   what it returned
  log_file,        \* what save_dialog_log wrote last (json.dump of dialog_data)
  request,         \* arguments of the last build_system_prompt call of a turn
  emo_text,        \* _extract_emotion applied alone: its text argument
  emo_list,        \*   the tags of agent_config["emotions"], in their order
  emo_done,        \*   whether it has been applied
  emo_tag,         \*   the tag it returned
  emo_clean,       \*   the clean text it returned
  gen_ensure,      \* generate_response applied alone: how _ensure_token goes
  gen_attempts,    \*   what each completion request ends with
  gen_done,        \*   whether it has been applied
  gen_out,         \*   what it gave its caller
  stats,           \* what the last get_statistics call returned
  recent_out,      \* the last get_recent_history call: argument and result
  stream_pc,       \* AIAvatarStream.run_stream: where it is
  running,         \* AIAvatarStream.running
  turns,           \* the turns argument of run_stream
  success,         \* what the last run_dialog_round returned
  failed_rounds,   \* rounds of this stream that returned False
  stream_step,     \* where run_dialog_round or finish_stream is
  audio_file,      \* what text_to_speech gave the round or the farewell
  last_play,       \* the last play_audio call of the stream
  spoken,          \* replies of this stream that were played
  finish_calls,    \* how often finish_stream was entered
  saved,           \* what became of save_dialog_log in finish_stream
  connected,       \* whether the connection to the overlay tool is open
  access_token,    \* GigaChatManager.access_token
  token_expires_at, \* GigaChatManager.token_expires_at, in seconds
  wall_clock,      \* datetime.now(), in seconds
  tokens_issued,   \* the tokens the token endpoint has handed out
  ensure_out,      \* the last _ensure_token call: what it found and did
  filter_enabled,  \* the overlay tool: whether the filter of a source is on
  obs_out,         \* the last set_active_speaker call: argument and effect
  filter_calls,    \* the set_source_filter_enabled calls made on the client
  use_salute,      \* TTSEngine.use_salute
  salute_available, \* TTSEngine.salute_engine.available
  silero_engine,   \* TTSEngine.silero_engine: whether the local engine is loaded
  audio_temp,      \* the files of assets/audio_temp written by the engines
  tts_out,         \* the last text_to_speech call: arguments and result
  silence_fallback, \* what the file at SILENCE_FALLBACK_PATH holds
  play_out         \* the last play_audio call: arguments and result

dmVars == <<turn_order, max_history, agent_queue, history, total_tokens,
            reply_count, start_time, clock, last, served, appended,
            returned_calls, returned_tokens, reply_calls, all_failed>>
fixVars == <<fix_text, fix_agent, fix_done, fix_out>>
logVars == <<log_file, request>>
emoVars == <<emo_text, emo_list, emo_done, emo_tag, emo_clean>>
genVars == <<gen_ensure, gen_attempts, gen_done, gen_out>>
queryVars == <<stats, recent_out>>
runVars == <<stream_pc, running, turns, success, failed_rounds, stream_step,
             audio_file, last_play, spoken, finish_calls, saved, connected>>
tokVars == <<access_token, token_expires_at, wall_clock, tokens_issued,
             ensure_out>>
obsVars == <<filter_enabled, obs_out, filter_calls>>
ttsVars == <<use_salute, salute_available, silero_engine, audio_temp,
             tts_out>>
audVars == <<silence_fallback, play_out>>
extVars == <<tokVars, obsVars, ttsVars, audVars>>
vars == <<dmVars, fixVars, logVars, emoVars, genVars, queryVars, runVars,
          extVars>>

-----------------------------------------------------------------------------
(* Bounds of the model *)

\* largest max_history a manager is constructed with
MaxHist == 2
\* calls made on one manager (each call takes one tick of the logical clock)
MaxClock == 3
\* largest turns argument run_stream is called with
MaxTurns == 2

-----------------------------------------------------------------------------
(* String literals of the program *)

\* "[РАДОСТЬ] Интересная мысль! Продолжим обсуждение?"
EMPTY_FILLER_AGENT_1 ==
  <<91, 1056, 1040, 1044, 1054, 1057, 1058, 1068, 93, 32, 1048, 1085, 1090, 1077, 1088, 1077, 1089, 1085, 1072, 1103, 32, 1084, 1099, 1089, 1083, 1100, 33, 32, 1055, 1088, 1086, 1076, 1086, 1083, 1078, 1080, 1084, 32, 1086, 1073, 1089, 1091, 1078, 1076, 1077, 1085, 1080, 1077, 63>>

\* "[ЛЮБОПЫТСТВО] Ой, а расскажи подробнее!"
EMPTY_FILLER_OTHER ==
  <<91, 1051, 1070, 1041, 1054, 1055, 1067, 1058, 1057, 1058, 1042, 1054, 93, 32, 1054, 1081, 44, 32, 1072, 32, 1088, 1072, 1089, 1089, 1082, 1072, 1078, 1080, 32, 1087, 1086, 1076, 1088, 1086, 1073, 1085, 1077, 1077, 33>>

\* "[РАДОСТЬ] Что-то я задумался. Продолжим?"
FALLBACK_AGENT_1 ==
  <<91, 1056, 1040, 1044, 1054, 1057, 1058, 1068, 93, 32, 1063, 1090, 1086, 45, 1090, 1086, 32, 1103, 32, 1079, 1072, 1076, 1091, 1084, 1072, 1083, 1089, 1103, 46, 32, 1055, 1088, 1086, 1076, 1086, 1083, 1078, 1080, 1084, 63>>

\* "[ЛЮБОПЫТСТВО] Ой, а давай вернёмся к теме!"
FALLBACK_OTHER ==
  <<91, 1051, 1070, 1041, 1054, 1055, 1067, 1058, 1057, 1058, 1042, 1054, 93, 32, 1054, 1081, 44, 32, 1072, 32, 1076, 1072, 1074, 1072, 1081, 32, 1074, 1077, 1088, 1085, 1105, 1084, 1089, 1103, 32, 1082, 32, 1090, 1077, 1084, 1077, 33>>

\* "Извините, не удалось получить ответ от GigaChat."
SENTINEL ==
  <<1048, 1079, 1074, 1080, 1085, 1080, 1090, 1077, 44, 32, 1085, 1077, 32, 1091, 1076, 1072, 1083, 1086, 1089, 1100, 32, 1087, 1086, 1083, 1091, 1095, 1080, 1090, 1100, 32, 1086, 1090, 1074, 1077, 1090, 32, 1086, 1090, 32, 71, 105, 103, 97, 67, 104, 97, 116, 46>>

\* "..."
ELLIPSIS ==
  <<46, 46, 46>>

\* "коллега"
KOLLEGA ==
  <<1082, 1086, 1083, 1083, 1077, 1075, 1072>>

\* "[НЕЙТРАЛЬНО]"
default_emotion ==
  <<91, 1053, 1045, 1049, 1058, 1056, 1040, 1051, 1068, 1053, 1054, 93>>

\* "[РАДОСТЬ]"
TAG_JOY ==
  <<91, 1056, 1040, 1044, 1054, 1057, 1058, 1068, 93>>

\* "[ЛЮБОПЫТСТВО]"
TAG_CURIOSITY ==
  <<91, 1051, 1070, 1041, 1054, 1055, 1067, 1058, 1057, 1058, 1042, 1054, 93>>

\* дружище, брат, парень, чувак, мужик
FORBIDDEN_WORDS == <<
  <<1076, 1088, 1091, 1078, 1080, 1097, 1077>>,
  <<1073, 1088, 1072, 1090>>,
  <<1087, 1072, 1088, 1077, 1085, 1100>>,
  <<1095, 1091, 1074, 1072, 1082>>,
  <<1084, 1091, 1078, 1080, 1082>> >>

\* the replacements with the single-word rules listed first
replacements_single_first == <<
  \* согласен -> согласна
  <<<<1089, 1086, 1075, 1083, 1072, 1089, 1077, 1085>>,
    <<1089, 1086, 1075, 1083, 1072, 1089, 1085, 1072>>>>,
  \* готов -> готова
  <<<<1075, 1086, 1090, 1086, 1074>>,
    <<1075, 1086, 1090, 1086, 1074, 1072>>>>,
  \* уверен -> уверена
  <<<<1091, 1074, 1077, 1088, 1077, 1085>>,
    <<1091, 1074, 1077, 1088, 1077, 1085, 1072>>>>,
  \* был -> была
  <<<<1073, 1099, 1083>>,
    <<1073, 1099, 1083, 1072>>>>,
  \* подумал -> подумала
  <<<<1087, 1086, 1076, 1091, 1084, 1072, 1083>>,
    <<1087, 1086, 1076, 1091, 1084, 1072, 1083, 1072>>>>,
  \* сказал -> сказала
  <<<<1089, 1082, 1072, 1079, 1072, 1083>>,
    <<1089, 1082, 1072, 1079, 1072, 1083, 1072>>>>,
  \* рад -> рада
  <<<<1088, 1072, 1076>>,
    <<1088, 1072, 1076, 1072>>>>,
  \* я уверен -> я уверена
  <<<<1103, 32, 1091, 1074, 1077, 1088, 1077, 1085>>,
    <<1103, 32, 1091, 1074, 1077, 1088, 1077, 1085, 1072>>>>,
  \* я был -> я была
  <<<<1103, 32, 1073, 1099, 1083>>,
    <<1103, 32, 1073, 1099, 1083, 1072>>>>,
  \* я подумал -> я подумала
  <<<<1103, 32, 1087, 1086, 1076, 1091, 1084, 1072, 1083>>,
    <<1103, 32, 1087, 1086, 1076, 1091, 1084, 1072, 1083, 1072>>>>,
  \* я сказал -> я сказала
  <<<<1103, 32, 1089, 1082, 1072, 1079, 1072, 1083>>,
    <<1103, 32, 1089, 1082, 1072, 1079, 1072, 1083, 1072>>>>,
  \* я рад -> я рада
  <<<<1103, 32, 1088, 1072, 1076>>,
    <<1103, 32, 1088, 1072, 1076, 1072>>>>,
  \* хотел бы -> хотела бы
  <<<<1093, 1086, 1090, 1077, 1083, 32, 1073, 1099>>,
    <<1093, 1086, 1090, 1077, 1083, 1072, 32, 1073, 1099>>>> >>

\* lines 202-216: the replacements, in list order
replacements == <<
  \* я уверен -> я уверена
  <<<<1103, 32, 1091, 1074, 1077, 1088, 1077, 1085>>,
    <<1103, 32, 1091, 1074, 1077, 1088, 1077, 1085, 1072>>>>,
  \* я был -> я была
  <<<<1103, 32, 1073, 1099, 1083>>,
    <<1103, 32, 1073, 1099, 1083, 1072>>>>,
  \* я подумал -> я подумала
  <<<<1103, 32, 1087, 1086, 1076, 1091, 1084, 1072, 1083>>,
    <<1103, 32, 1087, 1086, 1076, 1091, 1084, 1072, 1083, 1072>>>>,
  \* я сказал -> я сказала
  <<<<1103, 32, 1089, 1082, 1072, 1079, 1072, 1083>>,
    <<1103, 32, 1089, 1082, 1072, 1079, 1072, 1083, 1072>>>>,
  \* я рад -> я рада
  <<<<1103, 32, 1088, 1072, 1076>>,
    <<1103, 32, 1088, 1072, 1076, 1072>>>>,
  \* согласен -> согласна
  <<<<1089, 1086, 1075, 1083, 1072, 1089, 1077, 1085>>,
    <<1089, 1086, 1075, 1083, 1072, 1089, 1085, 1072>>>>,
  \* хотел бы -> хотела бы
  <<<<1093, 1086, 1090, 1077, 1083, 32, 1073, 1099>>,
    <<1093, 1086, 1090, 1077, 1083, 1072, 32, 1073, 1099>>>>,
  \* готов -> готова
  <<<<1075, 1086, 1090, 1086, 1074>>,
    <<1075, 1086, 1090, 1086, 1074, 1072>>>>,
  \* уверен -> уверена
  <<<<1091, 1074, 1077, 1088, 1077, 1085>>,
    <<1091, 1074, 1077, 1088, 1077, 1085, 1072>>>>,
  \* был -> была
  <<<<1073, 1099, 1083>>,
    <<1073, 1099, 1083, 1072>>>>,
  \* подумал -> подумала
  <<<<1087, 1086, 1076, 1091, 1084, 1072, 1083>>,
    <<1087, 1086, 1076, 1091, 1084, 1072, 1083, 1072>>>>,
  \* сказал -> сказала
  <<<<1089, 1082, 1072, 1079, 1072, 1083>>,
    <<1089, 1082, 1072, 1079, 1072, 1083, 1072>>>>,
  \* рад -> рада
  <<<<1088, 1072, 1076>>,
    <<1088, 1072, 1076, 1072>>>> >>

-----------------------------------------------------------------------------
(* Python str and re operations used by the program, on code-point texts *)

\* str.isspace() of one character
IsSpace(c) == c \in {9, 10, 11, 12, 13, 28, 29, 30, 31, 32, 133, 160}

\* \w of the re module on str patterns: letters, digits and the underscore
\* (Latin and Russian letters are the letters of the model's texts)
IsWord(c) ==
  \/ c \in 48..57 \/ c \in 65..90 \/ c = 95 \/ c \in 97..122
  \/ c = 1025 \/ c \in 1040..1103 \/ c = 1105

\* str.lower() of one character (also the case folding of re.IGNORECASE)
Lower(c) ==
  IF c \in 65..90 \/ c \in 1040..1071 THEN c + 32
  ELSE IF c = 1025 THEN 1105 ELSE c

\* text.lower()
lower(text) == [i \in 1..Len(text) |-> Lower(text[i])]

\* text.strip()
strip(text) ==
  LET n == Len(text) IN
  IF \A i \in 1..n : IsSpace(text[i]) THEN <<>>
  ELSE LET a == CHOOSE i \in 1..n :
                  ~IsSpace(text[i]) /\ \A j \in 1..(i - 1) : IsSpace(text[j])
           b == CHOOSE i \in 1..n :
                  ~IsSpace(text[i]) /\ \A j \in (i + 1)..n : IsSpace(text[j])
       IN SubSeq(text, a, b)

\* sub occurs in text at position i, compared exactly
occurs_at(text, sub, i) ==
  /\ i + Len(sub) - 1 <= Len(text)
  /\ \A k \in 1..Len(sub) : text[i + k - 1] = sub[k]

\* the test "sub in text"
contains(text, sub) ==
  \E i \in 1..(Len(text) - Len(sub) + 1) : occurs_at(text, sub, i)

\* text.endswith(suffix)
endswith(text, suffix) ==
  /\ Len(suffix) <= Len(text)
  /\ occurs_at(text, suffix, Len(text) - Len(suffix) + 1)

\* The matches a left-to-right scan takes among the match starts ms of a
\* pattern of length n: the leftmost one, then the leftmost one that starts
\* behind its end, and so on
RECURSIVE leftmost(_, _, _)
leftmost(ms, n, from) ==
  LET rest == {i \in ms : i >= from} IN
  IF rest = {} THEN {}
  ELSE LET m == CHOOSE i \in rest : \A j \in rest : i <= j
       IN {m} \cup leftmost(rest, n, m + n)

\* the same set; matches that do not overlap are all taken
taken(ms, n) ==
  IF \A i \in ms : \A d \in 1..(n - 1) : (i + d) \notin ms
  THEN ms
  ELSE leftmost(ms, n, 1)

\* text[lo..hi] with the disjoint matches of length n that start at the
\* positions sel replaced by new (split at the middle match)
RECURSIVE splice(_, _, _, _, _, _)
splice(text, n, new, lo, hi, sel) ==
  IF sel = {} THEN SubSeq(text, lo, hi)
  ELSE LET m == CHOOSE i \in sel :
                  Cardinality({j \in sel : j < i}) = Cardinality(sel) \div 2
       IN splice(text, n, new, lo, m - 1, {j \in sel : j < m})
          \o new
          \o splice(text, n, new, m + n, hi, {j \in sel : j > m})

\* text with the leftmost non-overlapping matches replaced: ms is the set of
\* all positions where a match of length n starts
rewrite(text, n, new, ms) ==
  splice(text, n, new, 1, Len(text), taken(ms, n))

\* text.replace(old, new), old not empty
str_replace(text, old, new) ==
  rewrite(text, Len(old), new,
          {i \in 1..Len(text) : occurs_at(text, old, i)})

\* a word character stands at position i of text
word_at(text, i) == i \in 1..Len(text) /\ IsWord(text[i])

\* \b of the re module holds just before position i
word_boundary(text, i) == word_at(text, i - 1) # word_at(text, i)

\* the pattern \b<word>\b with re.IGNORECASE matches text at position i
pattern_at(text, word, i) ==
  /\ i + Len(word) - 1 <= Len(text)
  /\ \A k \in 1..Len(word) : Lower(text[i + k - 1]) = Lower(word[k])
  /\ word_boundary(text, i)
  /\ word_boundary(text, i + Len(word))

\* re.sub(r'\b<word>\b', new, text, flags=re.IGNORECASE)
re_sub(word, new, text) ==
  rewrite(text, Len(word), new,
          {i \in 1..Len(text) : pattern_at(text, word, i)})

\* positions where the words of text.split() start
word_starts(text) ==
  {i \in 1..Len(text) :
     ~IsSpace(text[i]) /\ (i = 1 \/ IsSpace(text[i - 1]))}

\* the word of text.split() that starts at position i
word_from(text, i) ==
  LET e == CHOOSE j \in i..Len(text) :
             /\ \A k \in i..j : ~IsSpace(text[k])
             /\ (j = Len(text) \/ IsSpace(text[j + 1]))
  IN SubSeq(text, i, e)

\* ' '.join of the words that start at the positions ws (split at the
\* middle word)
RECURSIVE join_words(_, _)
join_words(text, ws) ==
  IF ws = {} THEN <<>>
  ELSE LET m == CHOOSE i \in ws :
                  Cardinality({j \in ws : j < i}) = Cardinality(ws) \div 2
           before == {j \in ws : j < m}
           after == {j \in ws : j > m}
       IN (IF before = {} THEN <<>> ELSE join_words(text, before) \o <<32>>)
          \o word_from(text, m)
          \o (IF after = {} THEN <<>> ELSE <<32>> \o join_words(text, after))

\* ' '.join(text.split()[:k])
join_first_words(text, k) ==
  LET ws == word_starts(text) IN
  join_words(text, {i \in ws : Cardinality({j \in ws : j < i}) < k})

\* text.split(']')[-1]: what follows the last ']' (code point 93)
after_last_bracket(text) ==
  LET at == {i \in 1..Len(text) : text[i] = 93} IN
  IF at = {} THEN text
  ELSE LET m == CHOOSE i \in at : \A j \in (i + 1)..Len(text) : text[j] # 93
       IN SubSeq(text, m + 1, Len(text))

-----------------------------------------------------------------------------
(* Program constants *)

\* _validate_and_fix_reply: a reply shorter than this after trimming is empty
MIN_REPLY_LEN == 5
\* _validate_and_fix_reply: longest reply kept as it is
MAX_REPLY_LEN == 1000
\* _validate_and_fix_reply: characters kept in front of the ellipsis
CUT_LEN == 997
\* get_next_reply: token count booked for a fallback utterance
FALLBACK_TOKENS == 10
\* generate_response: default retry_count
retry_count == 3
\* generate_response: an answer shorter than this after trimming is empty
MIN_ANSWER_LEN == 10
\* generate_response: default target_duration, in seconds
target_duration == 30
\* _estimate_audio_duration: shortest estimate, in tenths of a second
MIN_DURATION_10 == 20

-----------------------------------------------------------------------------
(* PromptBuilder: the participant configuration *)

AgentIds == {"agent_1", "agent_2", "agent_3"}

\* config["agents"]: the participants that have a configuration entry
agents ==
  [a \in {"agent_1", "agent_2"} |->
     IF a = "agent_1"
     THEN [name |-> "Professor Cat", temperature |-> 7,
           emotions |-> <<TAG_JOY, TAG_CURIOSITY>>]
     ELSE [name |-> "Doctor Cat", temperature |-> 7,
           emotions |-> <<TAG_CURIOSITY, TAG_JOY>>]]

\* PromptBuilder.get_agent_config raises ValueError for an id with no entry
get_agent_config_raises(agent_id) == agent_id \notin DOMAIN agents

-----------------------------------------------------------------------------
(* GigaChatManager.generate_response *)

\* One completion request ends with an exception (network error, HTTP error
\* status, malformed body) or with an answer and its token count.
Failure(status, refresh_ok) ==
  [kind |-> "error", status |-> status, refresh_ok |-> refresh_ok,
   answer |-> <<>>, tokens |-> 0]
Answer(text, tokens) ==
  [kind |-> "answer", status |-> 200, refresh_ok |-> TRUE,
   answer |-> text, tokens |-> tokens]

\* what generate_response gives its caller
GenResult(raised, text, tokens, requests, exhausted) ==
  [raised |-> raised, text |-> text, tokens |-> tokens,
   requests |-> requests, exhausted |-> exhausted]

\* _estimate_audio_duration, in tenths of a second: round(max(2.0, words / 3.0), 1)
estimate_audio_duration(text) ==
  LET clean == strip(after_last_bracket(strip(text)))
      words == Cardinality(word_starts(clean))
      tenths == (20 * words + 3) \div 6
  IN IF tenths > MIN_DURATION_10 THEN tenths ELSE MIN_DURATION_10

\* lines 194-201: an answer estimated above 1.5 target durations is cut to
\* int(target_duration * 3) words and "..."
cut_to_duration(answer) ==
  LET target_words == target_duration * 3
  IN IF /\ estimate_audio_duration(answer) > target_duration * 15
        /\ Cardinality(word_starts(answer)) > target_words
     THEN join_first_words(answer, target_words) \o ELLIPSIS
     ELSE answer

\* line 138: the number of history records generate_response passes on
HISTORY_WINDOW == 10

\* lines 136-139: the messages placed after the system prompt, history[-10:]
messages_after_prompt(hist) ==
  IF Len(hist) <= HISTORY_WINDOW THEN hist
  ELSE SubSeq(hist, Len(hist) - HISTORY_WINDOW + 1, Len(hist))

\* an answer refused only when it is empty
too_short_only_empty(answer) == Len(answer) = 0

\* line 180: not answer or len(answer.strip()) < 10
too_short(answer) ==
  Len(answer) = 0 \/ Len(strip(answer)) < MIN_ANSWER_LEN

\* the retry loop, lines 164-223, from loop index attempt on
RECURSIVE attempt_loop(_, _)
attempt_loop(attempts, attempt) ==
  IF attempt >= retry_count
  THEN GenResult(FALSE, SENTINEL, 0, attempt, TRUE)
  ELSE
    LET o == attempts[attempt + 1] IN
    IF o.kind = "answer"
    THEN IF too_short(o.answer)
         THEN IF attempt < retry_count - 1
              THEN attempt_loop(attempts, attempt + 1)
              ELSE GenResult(FALSE, SENTINEL, 0, attempt + 1, TRUE)
         ELSE GenResult(FALSE, cut_to_duration(strip(o.answer)), o.tokens,
                        attempt + 1, FALSE)
    ELSE IF o.status = 401 /\ ~o.refresh_ok
         THEN GenResult(TRUE, <<>>, 0, attempt + 1, FALSE)
         ELSE attempt_loop(attempts, attempt + 1)

\* generate_response for one behaviour of the service: ensure says how
\* _ensure_token went ("valid", "refreshed" or "failed": the refresh raised),
\* attempts what each completion request ended with
generate_response(ensure, attempts) ==
  IF ensure = "failed" THEN GenResult(TRUE, <<>>, 0, 0, FALSE)
  ELSE attempt_loop(attempts, 0)

-----------------------------------------------------------------------------
(* DialogManager: the reply sanitizer and the emotion tag extractor *)

\* the empty reply passed on as it is
empty_filler_blank(agent_id) == <<>>

\* one filler for every participant
empty_filler_same_for_all(agent_id) == EMPTY_FILLER_AGENT_1

\* lines 186-191: the filler for an empty reply
empty_filler(agent_id) ==
  IF agent_id = "agent_1" THEN EMPTY_FILLER_AGENT_1 ELSE EMPTY_FILLER_OTHER

\* lines 194-196
cut_long(text) ==
  IF Len(text) > MAX_REPLY_LEN
  THEN SubSeq(text, 1, CUT_LEN) \o ELLIPSIS
  ELSE text

\* the replacements applied for every participant
gender_fixed_for_all(agent_id) == TRUE

\* line 200: the participant whose replies get the gender replacements
gender_fixed(agent_id) == agent_id = "agent_2"

\* lines 217-218: the replacements from the k-th on, in list order
RECURSIVE fix_gender(_, _)
fix_gender(text, k) ==
  IF k > Len(replacements) THEN text
  ELSE fix_gender(re_sub(replacements[k][1], replacements[k][2], text), k + 1)

\* lines 221-225: the forbidden words from the k-th on
RECURSIVE fix_forbidden(_, _)
fix_forbidden(text, k) ==
  IF k > Len(FORBIDDEN_WORDS) THEN text
  ELSE LET word == FORBIDDEN_WORDS[k] IN
       fix_forbidden(IF contains(lower(text), word)
                     THEN re_sub(word, KOLLEGA, text)
                     ELSE text, k + 1)

\* _validate_and_fix_reply
validate_and_fix_reply(text, agent_id) ==
  IF Len(text) = 0 \/ Len(strip(text)) < MIN_REPLY_LEN
  THEN empty_filler(agent_id)
  ELSE LET cut == cut_long(text)
           fixed_text == IF gender_fixed(agent_id) THEN fix_gender(cut, 1) ELSE cut
       IN fix_forbidden(fixed_text, 1)

\* _extract_emotion with the strip() calls of lines 243 and 248 left out
extract_emotion_untrimmed(text, emotions, k) ==
  LET known == {i \in k..Len(emotions) : contains(text, emotions[i])} IN
  IF known = {} THEN <<default_emotion, text>>
  ELSE LET first == CHOOSE i \in known : \A j \in known : i <= j IN
       <<emotions[first], str_replace(text, emotions[first], <<>>)>>

\* _extract_emotion over the emotion tags from the k-th on: <<tag, clean text>>
RECURSIVE extract_emotion(_, _, _)
extract_emotion(text, emotions, k) ==
  IF k > Len(emotions) THEN <<default_emotion, strip(text)>>
  ELSE IF contains(text, emotions[k])
       THEN <<emotions[k], strip(str_replace(text, emotions[k], <<>>))>>
       ELSE extract_emotion(text, emotions, k + 1)

\* lines 306-311: the fallback utterance when the generation call raises
fallback(agent_id) ==
  IF agent_id = "agent_1" THEN FALLBACK_AGENT_1 ELSE FALLBACK_OTHER

-----------------------------------------------------------------------------
(* What the generation service answers *)

\* "[РАДОСТЬ] Привет, брат! Я уверен, что прав."
ANSWER_GREETING ==
  <<91, 1056, 1040, 1044, 1054, 1057, 1058, 1068, 93, 32, 1055, 1088, 1080, 1074, 1077, 1090, 44, 32, 1073, 1088, 1072, 1090, 33, 32, 1071, 32, 1091, 1074, 1077, 1088, 1077, 1085, 44, 32, 1095, 1090, 1086, 32, 1087, 1088, 1072, 1074, 46>>

\* "  [ЛЮБОПЫТСТВО]  "
ANSWER_TAG_ONLY ==
  <<32, 32, 91, 1051, 1070, 1041, 1054, 1055, 1067, 1058, 1057, 1058, 1042, 1054, 93, 32, 32>>

\* "Просто текст без тега"
ANSWER_PLAIN ==
  <<1055, 1088, 1086, 1089, 1090, 1086, 32, 1090, 1077, 1082, 1089, 1090, 32, 1073, 1077, 1079, 32, 1090, 1077, 1075, 1072>>

\* "Да."
ANSWER_SHORT ==
  <<1044, 1072, 46>>

\* "Тест"
USER_TEXT ==
  <<1058, 1077, 1089, 1090>>

\* "брат"
BRAT ==
  <<1073, 1088, 1072, 1090>>

\* n times the character c
repeat(c, n) == [i \in 1..n |-> c]

\* "брат " followed by 996 times "а": 1001 characters
ANSWER_LONG == BRAT \o <<32>> \o repeat(1072, 996)

\* the answers of the service that generate_response accepts, with their
\* usage.total_tokens
Answers ==
  {Answer(ANSWER_GREETING, 25), Answer(ANSWER_TAG_ONLY, 3),
   Answer(ANSWER_LONG, 40), Answer(ANSWER_PLAIN, 0)}

\* the ways one completion request fails: network error, HTTP 401 with a
\* token refresh that works, HTTP 402, an answer that is too short, no answer
Failures ==
  {Failure(0, TRUE), Failure(401, TRUE), Failure(402, TRUE),
   Answer(ANSWER_SHORT, 2), Answer(<<>>, 0)}

\* What happens inside the try block of one turn: whether build_system_prompt
\* returns, how _ensure_token goes, what each completion request ends with
Script(prompt_ok, ensure, attempts) ==
  [prompt_ok |-> prompt_ok, ensure |-> ensure, attempts |-> attempts]

Scripts ==
  {Script(TRUE, "valid", <<a>>) : a \in Answers}
  \cup {Script(TRUE, "refreshed", <<f, Answer(ANSWER_GREETING, 25)>>) : f \in Failures}
  \cup {Script(TRUE, "valid", <<f, f, f>>) : f \in Failures}
  \cup {Script(TRUE, "valid", <<Failure(401, FALSE)>>),
        Script(TRUE, "failed", <<>>),
        Script(FALSE, "valid", <<>>)}

\* "   "
STUB_BLANK ==
  <<32, 32, 32>>

\* A generation service replaced by a stub (the Mock of the tests): its
\* generate_response returns the text and token count it is told to
StubAnswers ==
  {Answer(<<>>, 0), Answer(STUB_BLANK, 0), Answer(ANSWER_SHORT, 2),
   Answer(ANSWER_TAG_ONLY, 3), Answer(ANSWER_GREETING, 25)}
StubScripts == {Script(TRUE, "stub", <<a>>) : a \in StubAnswers}

\* get_next_reply lines 275-303: what the try block ends with
generation(s) ==
  IF ~s.prompt_ok THEN GenResult(TRUE, <<>>, 0, 0, FALSE)
  ELSE IF s.ensure = "stub"
       THEN GenResult(FALSE, s.attempts[1].answer, s.attempts[1].tokens, 0, FALSE)
       ELSE generate_response(s.ensure, s.attempts)

-----------------------------------------------------------------------------
(* DialogManager *)

\* rotate with the rotation left out
rotate_stuck(queue) == queue

\* the head taken out and not put back at the end
rotate_drops_head(queue) == Tail(queue)

\* deque.rotate(-1)
rotate(queue) ==
  IF queue = <<>> THEN queue ELSE Tail(queue) \o <<Head(queue)>>

\* the Python slice lst[-k:] for k >= 0 (lst[-0:] is lst[0:], the whole list)
last_slice(lst, k) ==
  IF k = 0 \/ k >= Len(lst) THEN lst
  ELSE SubSeq(lst, Len(lst) - k + 1, Len(lst))

\* add_to_history lines 93-100: the entry, metadata written over it
NoMetadata == [x \in {} |-> x]
new_entry(role, content, timestamp, metadata) ==
  metadata @@ [role |-> role, content |-> content, timestamp |-> timestamp]

\* the history cut to its first max entries instead of its last
add_to_history_keeps_oldest(hist, entry, max) ==
  LET longer == Append(hist, entry) IN
  IF Len(longer) > max THEN SubSeq(longer, 1, max) ELSE longer

\* add_to_history lines 102-106: the history after the entry is added
add_to_history(hist, entry, max) ==
  LET longer == Append(hist, entry) IN
  IF Len(longer) > max THEN last_slice(longer, max) ELSE longer

\* get_next_reply line 317: self.reply_count += 1
count_reply(count) == count + 1

\* add_tokens with = written for +=
add_tokens_overwrite(total, tokens) == tokens

\* get_next_reply line 318: self.total_tokens += tokens
add_tokens(total, tokens) == total + tokens

\* get_next_reply lines 304-330 for a configured participant: the reply made
\* from what the try block ended with
produce(agent_id, gen) ==
  LET raw == IF gen.raised THEN fallback(agent_id) ELSE gen.text
      tokens == IF gen.raised THEN FALLBACK_TOKENS ELSE gen.tokens
      response_text == validate_and_fix_reply(raw, agent_id)
      found == extract_emotion(response_text, agents[agent_id].emotions, 1)
  IN [response_text |-> response_text, tokens |-> tokens,
      emotion |-> found[1], clean_text |-> found[2],
      gen |-> IF gen.raised THEN "raised"
              ELSE IF gen.exhausted THEN "exhausted" ELSE "ok"]

\* produce, tabulated over the participants and the service's behaviours
produced ==
  [agent_id \in DOMAIN agents, s \in Scripts \cup StubScripts |->
     produce(agent_id, generation(s))]

\* what a call gave back, for the variable last
Result(op, raised, agent_id, full_text, clean_text, tokens, gen, intro) ==
  [op |-> op, raised |-> raised, agent_id |-> agent_id,
   full_text |-> full_text, clean_text |-> clean_text, tokens |-> tokens,
   gen |-> gen, intro |-> intro]
NoResult(op) == Result(op, FALSE, "", <<>>, <<>>, 0, "none", FALSE)

\* the topic argument of get_next_reply: None, or a string
NoTopic == [given |-> FALSE, text |-> <<>>]
Topic(text) == [given |-> TRUE, text |-> text]

\* "тема"
TOPIC_TEXT ==
  <<1090, 1077, 1084, 1072>>

\* the topics a turn is asked with: None, "", "тема"
Topics == {NoTopic, Topic(<<>>), Topic(TOPIC_TEXT)}

\* Python truth value of an Optional[str]
truthy(topic) == topic.given /\ topic.text # <<>>

\* the introduction prompt whatever the turn is, as long as a topic is given
intro_prompt_any_turn(is_first, topic) == truthy(topic)

\* get_next_reply line 276: whether the introduction prompt is built
intro_prompt(is_first, topic) == is_first /\ truthy(topic)

\* DialogManager.get_recent_history(n)
get_recent_history(hist, n) ==
  LET recent == last_slice(hist, n) IN
  [i \in 1..Len(recent) |->
     [role |-> recent[i].role, content |-> recent[i].content]]

\* get_recent_history lines 120-121: n, or max_history when n is None
NoArg == [given |-> FALSE, value |-> 0]
Arg(value) == [given |-> TRUE, value |-> value]
recent_count(n, max) == IF n.given THEN n.value ELSE max

\* what a get_recent_history call was asked and what it returned
Recent(n, result) == [asked |-> TRUE, n |-> n, result |-> result]
NoRecent == [asked |-> FALSE, n |-> NoArg, result |-> <<>>]

\* Python's true division a / b as a fraction; a zero divisor raises
\* ZeroDivisionError
true_div(a, b) ==
  IF b = 0 THEN [raised |-> TRUE, num |-> 0, den |-> 1]
  ELSE [raised |-> FALSE, num |-> a, den |-> b]

\* the average computed whatever the count is
average_tokens_unguarded(total, count) == true_div(total, count)

\* get_statistics lines 168-171: average_tokens_per_reply
average_tokens(total, count) ==
  IF count > 0 THEN true_div(total, count)
  ELSE [raised |-> FALSE, num |-> 0, den |-> 1]

\* the head of the queue taken out with popleft
current_turn_popped(queue) ==
  [agent_id |-> Head(queue), queue |-> Tail(queue)]

\* get_statistics line 173, self.agent_queue[0]: the id read and the queue
\* as the read leaves it
current_turn(queue) == [agent_id |-> Head(queue), queue |-> queue]

\* get_statistics lines 165-175: the dictionary returned (raised: the
\* division raised and nothing is returned)
get_statistics(replies, tokens, hist, queue, now, start) ==
  LET average == average_tokens(tokens, replies) IN
  [made |-> TRUE, raised |-> average.raised,
   total_replies |-> replies, total_tokens |-> tokens,
   average_tokens_per_reply |-> [num |-> average.num, den |-> average.den],
   history_length |-> Len(hist),
   current_turn |-> current_turn(queue).agent_id,
   duration_seconds |-> now - start,
   summary |-> FALSE]
NoStats ==
  [made |-> FALSE, raised |-> FALSE, total_replies |-> 0, total_tokens |-> 0,
   average_tokens_per_reply |-> [num |-> 0, den |-> 1], history_length |-> 0,
   current_turn |-> "", duration_seconds |-> 0, summary |-> FALSE]

\* get_dialog_summary lines 355-363: the statistics the summary text shows
get_dialog_summary(st) ==
  [NoStats EXCEPT !.made = TRUE, !.raised = st.raised,
                  !.total_replies = st.total_replies,
                  !.total_tokens = st.total_tokens,
                  !.duration_seconds = st.duration_seconds,
                  !.current_turn = st.current_turn,
                  !.summary = TRUE]

\* what a turn asked for: the is_first_reply flag it gave to
\* build_system_prompt and the history it gave to generate_response
Request(is_first_reply, hist) ==
  [made |-> TRUE, is_first_reply |-> is_first_reply, history |-> hist]
NoRequest == [made |-> FALSE, is_first_reply |-> FALSE, history |-> <<>>]

\* save_dialog_log lines 147-154: dialog_data as written to the file
dialog_data(start, end, replies, tokens, order, hist) ==
  [written |-> TRUE, start_time |-> start, end_time |-> end,
   total_replies |-> replies, total_tokens |-> tokens, turn_order |-> order,
   history |-> hist]
NoLog ==
  [written |-> FALSE, start_time |-> 0, end_time |-> 0, total_replies |-> 0,
   total_tokens |-> 0, turn_order |-> <<>>, history |-> <<>>]

\* the turn orders a manager is constructed with: non-empty, each participant
\* listed once; agent_3 has no configuration entry
TurnOrders ==
  {<<"agent_1", "agent_2">>, <<"agent_2", "agent_1">>, <<"agent_1">>,
   <<"agent_1", "agent_2", "agent_3">>, <<"agent_3", "agent_1">>}

\* the state of the stand-alone sanitizer while the manager runs
FixIdle ==
  /\ fix_text = <<>>
  /\ fix_agent = "agent_1"
  /\ fix_done = FALSE
  /\ fix_out = <<>>

\* the state of the stand-alone tag extractor while the manager runs
EmoIdle ==
  /\ emo_text = <<>>
  /\ emo_list = <<>>
  /\ emo_done = FALSE
  /\ emo_tag = <<>>
  /\ emo_clean = <<>>

\* the state of the stand-alone generate_response while the manager runs
GenIdle ==
  /\ gen_ensure = "valid"
  /\ gen_attempts = <<>>
  /\ gen_done = FALSE
  /\ gen_out = GenResult(FALSE, <<>>, 0, 0, FALSE)

\* the stream has not played anything yet
NoStreamPlay ==
  [made |-> FALSE, agent_id |-> "", farewell |-> FALSE, file |-> "",
   ok |-> FALSE, switched |-> FALSE, switch |-> ""]

\* no stream is run
StreamIdle ==
  /\ stream_pc = "none"
  /\ running = TRUE
  /\ turns = 0
  /\ success = TRUE
  /\ failed_rounds = 0
  /\ stream_step = "idle"
  /\ audio_file = ""
  /\ last_play = NoStreamPlay
  /\ spoken = 0
  /\ finish_calls = 0
  /\ saved = "no"
  /\ connected = FALSE

\* no token is held
NoToken == 0

\* no _ensure_token call was made yet
NoEnsure ==
  [called |-> FALSE, requests |-> 0, raised |-> FALSE, token_before |-> NoToken,
   expires_before |-> 0, at |-> 0, granted |-> NoToken, expires_in |-> 0]

\* the token handling is not exercised
TokIdle ==
  /\ access_token = NoToken
  /\ token_expires_at = 0
  /\ wall_clock = 0
  /\ tokens_issued = 0
  /\ ensure_out = NoEnsure

\* "Захват окна", the source of agent_1 (the black cat)
WINDOW_CAPTURE ==
  <<1047, 1072, 1093, 1074, 1072, 1090, 32, 1086, 1082, 1085, 1072>>

\* "Захват окна 2", the source of agent_2 (the white cat)
WINDOW_CAPTURE_2 ==
  <<1047, 1072, 1093, 1074, 1072, 1090, 32, 1086, 1082, 1085, 1072, 32,
    50>>

Sources == {WINDOW_CAPTURE, WINDOW_CAPTURE_2}

\* no set_active_speaker call was made yet
NoSwitch ==
  [called |-> FALSE, agent_name |-> "", raised |-> FALSE, requests |-> <<>>,
   before |-> [src \in Sources |-> FALSE]]

\* the overlay is not exercised
ObsIdle ==
  /\ filter_enabled = [src \in Sources |-> FALSE]
  /\ obs_out = NoSwitch
  /\ filter_calls = 0

\* the path of a .wav file in assets/audio_temp: the engine that names it,
\* the voice and the text its name is computed from
AudioPath(engine, voice, text) ==
  [engine |-> engine, voice |-> voice, text |-> text]

\* assets/audio_temp/_silence_fallback.wav
SILENCE_FALLBACK_PATH == AudioPath("_silence_fallback", "", <<>>)

\* no path
NoPath == AudioPath("", "", <<>>)

\* no text_to_speech call was made yet
NoSpeech ==
  [called |-> FALSE, agent_id |-> "", raised |-> FALSE, path |-> NoPath,
   remote |-> NoPath, local |-> ""]

\* the speech engine is not exercised
TtsIdle ==
  /\ use_salute = FALSE
  /\ salute_available = FALSE
  /\ silero_engine = FALSE
  /\ audio_temp = {}
  /\ tts_out = NoSpeech

\* no play_audio call was made yet
NoPlay ==
  [called |-> FALSE, file |-> "", agent_id |-> "", wait |-> FALSE,
   fallback |-> "", raised |-> FALSE, returned |-> FALSE, played |-> "",
   device |-> 0, device_ok |-> FALSE]

\* the audio router is not exercised
AudIdle ==
  /\ silence_fallback = "silence"
  /\ play_out = NoPlay

\* the parts of the program outside the dialog manager are not exercised
ExtIdle ==
  /\ TokIdle
  /\ ObsIdle
  /\ TtsIdle
  /\ AudIdle

\* DialogManager.__init__
Init ==
  /\ turn_order \in TurnOrders
  /\ max_history \in 0..MaxHist
  /\ agent_queue = turn_order
  /\ history = <<>>
  /\ total_tokens = 0
  /\ reply_count = 0
  /\ start_time = 0
  /\ clock = 0
  /\ last = NoResult("init")
  /\ served = <<>>
  /\ appended = <<>>
  /\ returned_calls = 0
  /\ returned_tokens = 0
  /\ reply_calls = 0
  /\ all_failed = TRUE
  /\ log_file = NoLog
  /\ request = NoRequest
  /\ stats = NoStats
  /\ recent_out = NoRecent
  /\ FixIdle
  /\ EmoIdle
  /\ GenIdle
  /\ StreamIdle
  /\ ExtIdle

\* DialogManager.get_next_agent, called on its own
GetNextAgent ==
  /\ clock < MaxClock
  /\ agent_queue' = rotate(agent_queue)
  /\ served' = Append(served, Head(agent_queue))
  /\ last' = [NoResult("get_next_agent") EXCEPT !.agent_id = Head(agent_queue)]
  /\ clock' = clock + 1
  /\ UNCHANGED <<turn_order, max_history, history, total_tokens, reply_count,
                 start_time, appended, returned_calls, returned_tokens,
                 reply_calls, all_failed, log_file, request>>
  /\ UNCHANGED <<queryVars, fixVars, emoVars, genVars, runVars, extVars>>

\* DialogManager.add_to_history, called on its own (no metadata)
AddToHistory(role, content) ==
  /\ clock < MaxClock
  /\ LET entry == new_entry(role, content, clock, NoMetadata) IN
     /\ history' = add_to_history(history, entry, max_history)
     /\ appended' = Append(appended, entry)
  /\ last' = NoResult("add_to_history")
  /\ clock' = clock + 1
  /\ UNCHANGED <<turn_order, max_history, agent_queue, total_tokens,
                 reply_count, start_time, served, returned_calls,
                 returned_tokens, reply_calls, all_failed, log_file, request>>
  /\ UNCHANGED <<queryVars, fixVars, emoVars, genVars, runVars, extVars>>

\* DialogManager.get_next_reply(topic) while the service behaves as s says:
\* what it does to the manager
next_reply(topic, s) ==
  /\ LET agent_id == Head(agent_queue)
         is_first == (reply_count = 0)
         intro == intro_prompt(is_first, topic)
     IN
     /\ agent_queue' = rotate(agent_queue)
     /\ served' = Append(served, agent_id)
     /\ reply_calls' = reply_calls + 1
     /\ IF get_agent_config_raises(agent_id)
        THEN \* line 263 raises before the try block
             /\ last' = [NoResult("get_next_reply") EXCEPT
                           !.raised = TRUE, !.agent_id = agent_id]
             /\ all_failed' = all_failed
             /\ UNCHANGED <<history, total_tokens, reply_count, appended,
                            returned_calls, returned_tokens, request>>
        ELSE LET p == produced[agent_id, s]
                 metadata == [agent_id |-> agent_id,
                              agent_name |-> agents[agent_id].name,
                              emotion |-> p.emotion,
                              tokens |-> p.tokens,
                              temperature |-> agents[agent_id].temperature]
                 entry == new_entry("assistant", p.response_text, clock, metadata)
             IN
             /\ reply_count' = count_reply(reply_count)
             /\ total_tokens' = add_tokens(total_tokens, p.tokens)
             /\ history' = add_to_history(history, entry, max_history)
             /\ appended' = Append(appended, entry)
             /\ returned_calls' = returned_calls + 1
             /\ returned_tokens' = returned_tokens + p.tokens
             /\ all_failed' = (all_failed /\ p.gen # "ok")
             /\ last' = Result("get_next_reply", FALSE, agent_id,
                               p.response_text, p.clean_text, p.tokens,
                               p.gen, intro)
             /\ request' = Request(intro,
                                   IF intro THEN <<>>
                                   ELSE get_recent_history(history, max_history))
  /\ clock' = clock + 1
  /\ UNCHANGED <<turn_order, max_history, start_time, log_file>>
  /\ UNCHANGED queryVars

\* get_next_reply within the time looked at
get_next_reply(topic, s) ==
  /\ clock < MaxClock
  /\ next_reply(topic, s)

\* get_next_reply called on its own
GetNextReply(topic, s) ==
  /\ get_next_reply(topic, s)
  /\ UNCHANGED <<fixVars, emoVars, genVars, runVars, extVars>>

\* ResetDialog with line 347 left out: the queue stays as it is
ResetDialog_keeps_queue ==
  /\ clock < MaxClock
  /\ history' = <<>>
  /\ agent_queue' = agent_queue
  /\ reply_count' = 0
  /\ total_tokens' = 0
  /\ start_time' = clock
  /\ last' = NoResult("reset_dialog")
  /\ served' = <<>>
  /\ appended' = <<>>
  /\ returned_calls' = 0
  /\ returned_tokens' = 0
  /\ reply_calls' = 0
  /\ all_failed' = TRUE
  /\ clock' = clock + 1
  /\ UNCHANGED <<turn_order, max_history, log_file, request>>
  /\ UNCHANGED <<queryVars, fixVars, emoVars, genVars, runVars, extVars>>

\* DialogManager.reset_dialog: what it does to the manager
reset_dialog ==
  /\ clock < MaxClock
  /\ history' = <<>>
  /\ agent_queue' = turn_order
  /\ reply_count' = 0
  /\ total_tokens' = 0
  /\ start_time' = clock
  /\ last' = NoResult("reset_dialog")
  /\ served' = <<>>
  /\ appended' = <<>>
  /\ returned_calls' = 0
  /\ returned_tokens' = 0
  /\ reply_calls' = 0
  /\ all_failed' = TRUE
  /\ clock' = clock + 1
  /\ UNCHANGED <<turn_order, max_history, log_file, request>>
  /\ UNCHANGED queryVars

\* reset_dialog called on its own
ResetDialog ==
  /\ reset_dialog
  /\ UNCHANGED <<fixVars, emoVars, genVars, runVars, extVars>>

\* DialogManager.save_dialog_log(filepath); write_ok: whether the file could
\* be opened and written (a failure is logged and swallowed, lines 160-161)
SaveDialogLog(write_ok) ==
  /\ clock < MaxClock
  /\ log_file' = IF write_ok
                 THEN dialog_data(start_time, clock, reply_count, total_tokens,
                                  turn_order, history)
                 ELSE log_file
  /\ last' = NoResult("save_dialog_log")
  /\ clock' = clock + 1
  /\ UNCHANGED <<turn_order, max_history, agent_queue, history, total_tokens,
                 reply_count, start_time, served, appended, returned_calls,
                 returned_tokens, reply_calls, all_failed, request>>
  /\ UNCHANGED <<queryVars, fixVars, emoVars, genVars, runVars, extVars>>

\* DialogManager.get_statistics
GetStatistics ==
  /\ clock < MaxClock
  /\ stats' = get_statistics(reply_count, total_tokens, history, agent_queue,
                             clock, start_time)
  /\ agent_queue' = current_turn(agent_queue).queue
  /\ last' = [NoResult("get_statistics") EXCEPT !.raised = stats'.raised]
  /\ clock' = clock + 1
  /\ UNCHANGED <<turn_order, max_history, history, total_tokens, reply_count,
                 start_time, served, appended, returned_calls, returned_tokens,
                 reply_calls, all_failed, log_file, request, recent_out>>
  /\ UNCHANGED <<fixVars, emoVars, genVars, runVars, extVars>>

\* DialogManager.get_dialog_summary
GetDialogSummary ==
  /\ clock < MaxClock
  /\ stats' = get_dialog_summary(
                 get_statistics(reply_count, total_tokens, history, agent_queue,
                                clock, start_time))
  /\ agent_queue' = current_turn(agent_queue).queue
  /\ last' = [NoResult("get_dialog_summary") EXCEPT !.raised = stats'.raised]
  /\ clock' = clock + 1
  /\ UNCHANGED <<turn_order, max_history, history, total_tokens, reply_count,
                 start_time, served, appended, returned_calls, returned_tokens,
                 reply_calls, all_failed, log_file, request, recent_out>>
  /\ UNCHANGED <<fixVars, emoVars, genVars, runVars, extVars>>

\* the arguments get_recent_history is called with: none, or a count
RecentArgs == {NoArg} \cup {Arg(n) : n \in 0..(MaxHist + 1)}

\* DialogManager.get_recent_history(n)
GetRecentHistory(n) ==
  /\ clock < MaxClock
  /\ recent_out' = Recent(n, get_recent_history(history,
                                            recent_count(n, max_history)))
  /\ last' = NoResult("get_recent_history")
  /\ clock' = clock + 1
  /\ UNCHANGED <<turn_order, max_history, agent_queue, history, total_tokens,
                 reply_count, start_time, served, appended, returned_calls,
                 returned_tokens, reply_calls, all_failed, log_file, request,
                 stats>>
  /\ UNCHANGED <<fixVars, emoVars, genVars, runVars, extVars>>

Next ==
  \/ GetNextAgent
  \/ AddToHistory("user", USER_TEXT)
  \/ \E topic \in Topics, s \in Scripts : GetNextReply(topic, s)
  \/ ResetDialog
  \/ \E write_ok \in BOOLEAN : SaveDialogLog(write_ok)

Spec == Init /\ [][Next]_vars

\* a manager constructed without a turn_order argument: the default order of
\* __init__ lines 48-52
InitDefaultOrder == Init /\ turn_order = <<"agent_1", "agent_2">>

SpecDefaultOrder == InitDefaultOrder /\ [][Next]_vars

\* the manager of the tests: default turn order, the generation service a stub
NextStub ==
  \/ GetNextAgent
  \/ AddToHistory("user", USER_TEXT)
  \/ \E topic \in Topics, s \in StubScripts : GetNextReply(topic, s)
  \/ ResetDialog
  \/ \E write_ok \in BOOLEAN : SaveDialogLog(write_ok)

SpecStub == InitDefaultOrder /\ [][NextStub]_vars

\* a manager with the default turn order whose query operations are called
\* between the turns (the generation service a stub)
NextQuery ==
  \/ GetNextAgent
  \/ AddToHistory("user", USER_TEXT)
  \/ \E topic \in Topics, s \in StubScripts : GetNextReply(topic, s)
  \/ ResetDialog
  \/ \E write_ok \in BOOLEAN : SaveDialogLog(write_ok)
  \/ GetStatistics
  \/ GetDialogSummary
  \/ \E n \in RecentArgs : GetRecentHistory(n)

SpecQuery == InitDefaultOrder /\ [][NextQuery]_vars

-----------------------------------------------------------------------------
(* _validate_and_fix_reply applied on its own *)

\* "брат "
HEAD_BRAT ==
  <<1073, 1088, 1072, 1090, 32>>

\* "Я уверен "
HEAD_SURE ==
  <<1071, 32, 1091, 1074, 1077, 1088, 1077, 1085, 32>>

\* " мужик"
TAIL_MUZHIK ==
  <<32, 1084, 1091, 1078, 1080, 1082>>

\* "."
TAIL_DOT ==
  <<46>>

\* "Братья, "
HEAD_BRATYA ==
  <<1041, 1088, 1072, 1090, 1100, 1103, 44, 32>>

\* "Я уверен, что прав"
HEAD_EXAMPLE ==
  <<1071, 32, 1091, 1074, 1077, 1088, 1077, 1085, 44, 32, 1095, 1090, 1086, 32, 1087, 1088, 1072, 1074>>

\* "Я был очень рад "
HEAD_MIXED ==
  <<1071, 32, 1073, 1099, 1083, 32, 1086, 1095, 1077, 1085, 1100, 32, 1088, 1072, 1076, 32>>

\* the texts it is applied to: a head, a run of "а", a tail
FixHeads ==
  {<<>>, <<32, 32>>, HEAD_BRAT, HEAD_SURE, HEAD_BRATYA, HEAD_EXAMPLE, HEAD_MIXED}
FixPads == {0, 3, 990, 1000}
FixTails == {<<>>, TAIL_MUZHIK, TAIL_DOT}
FixTexts ==
  {h \o repeat(1072, n) \o t : h \in FixHeads, n \in FixPads, t \in FixTails}

\* a manager that is not used while the sanitizer is applied
ManagerIdle ==
  /\ turn_order = <<"agent_1", "agent_2">>
  /\ max_history = 0
  /\ agent_queue = turn_order
  /\ history = <<>>
  /\ total_tokens = 0
  /\ reply_count = 0
  /\ start_time = 0
  /\ clock = 0
  /\ last = NoResult("init")
  /\ served = <<>>
  /\ appended = <<>>
  /\ returned_calls = 0
  /\ returned_tokens = 0
  /\ reply_calls = 0
  /\ all_failed = TRUE
  /\ log_file = NoLog
  /\ request = NoRequest
  /\ stats = NoStats
  /\ recent_out = NoRecent

FixInit ==
  /\ fix_text \in FixTexts
  /\ fix_agent \in AgentIds
  /\ fix_done = FALSE
  /\ fix_out = <<>>
  /\ ManagerIdle
  /\ EmoIdle
  /\ GenIdle
  /\ StreamIdle
  /\ ExtIdle

\* one call of _validate_and_fix_reply(fix_text, fix_agent)
ApplyFix ==
  /\ ~fix_done
  /\ fix_done' = TRUE
  /\ fix_out' = validate_and_fix_reply(fix_text, fix_agent)
  /\ UNCHANGED <<fix_text, fix_agent>>
  /\ UNCHANGED <<dmVars, logVars, queryVars, emoVars, genVars, runVars, extVars>>

FixNext == ApplyFix

SpecFix == FixInit /\ [][FixNext]_vars

-----------------------------------------------------------------------------
(* _extract_emotion applied on its own *)

\* "[ГНЕВ]", a tag in no participant's emotion list
TAG_ANGER ==
  <<91, 1043, 1053, 1045, 1042, 93>>

\* " а "
EMO_MIDDLE ==
  <<32, 1072, 32>>

\* "б"
EMO_END ==
  <<1073>>

\* the texts it is applied to: blanks, a tag or none, " а ", a tag or none,
\* "б" or a blank
EmoTags == {<<>>, TAG_JOY, TAG_CURIOSITY, TAG_ANGER}
EmoTexts ==
  {p \o t1 \o EMO_MIDDLE \o t2 \o e :
      p \in {<<>>, <<32, 32>>}, t1 \in EmoTags, t2 \in EmoTags,
      e \in {EMO_END, <<32>>}}

\* the tag lists of agent_config["emotions"] it is applied with
EmoLists ==
  {<<TAG_JOY, TAG_CURIOSITY>>, <<TAG_CURIOSITY, TAG_JOY>>, <<TAG_JOY>>}

EmoInit ==
  /\ emo_text \in EmoTexts
  /\ emo_list \in EmoLists
  /\ emo_done = FALSE
  /\ emo_tag = <<>>
  /\ emo_clean = <<>>
  /\ ManagerIdle
  /\ FixIdle
  /\ GenIdle
  /\ StreamIdle
  /\ ExtIdle

\* one call of _extract_emotion(emo_text, {"emotions": emo_list})
ApplyExtract ==
  /\ ~emo_done
  /\ emo_done' = TRUE
  /\ LET found == extract_emotion(emo_text, emo_list, 1) IN
     /\ emo_tag' = found[1]
     /\ emo_clean' = found[2]
  /\ UNCHANGED <<emo_text, emo_list>>
  /\ UNCHANGED <<dmVars, logVars, queryVars, fixVars, genVars, runVars, extVars>>

EmoNext == ApplyExtract

SpecEmotion == EmoInit /\ [][EmoNext]_vars

-----------------------------------------------------------------------------
(* generate_response applied alone *)

\* "Ну да, и я"
ANSWER_SPACED ==
  <<1053, 1091, 32, 1076, 1072, 44, 32, 1080, 32, 1103>>

\* what a completion request can end with: the failures, HTTP 401 with a
\* token refresh that fails too, and three answers that are accepted
GenOutcomes ==
  Failures \cup {Failure(401, FALSE), Answer(ANSWER_GREETING, 25),
                 Answer(ANSWER_TAG_ONLY, 3), Answer(ANSWER_SPACED, 4)}

GenInit ==
  /\ gen_ensure \in {"valid", "refreshed", "failed"}
  /\ gen_attempts \in [1..retry_count -> GenOutcomes]
  /\ gen_done = FALSE
  /\ gen_out = GenResult(FALSE, <<>>, 0, 0, FALSE)
  /\ ManagerIdle
  /\ FixIdle
  /\ EmoIdle
  /\ StreamIdle
  /\ ExtIdle

\* one call of generate_response(system_prompt) while the token service
\* behaves as gen_ensure says and the completion service as gen_attempts
ApplyGenerate ==
  /\ ~gen_done
  /\ gen_done' = TRUE
  /\ gen_out' = generate_response(gen_ensure, gen_attempts)
  /\ UNCHANGED <<gen_ensure, gen_attempts>>
  /\ UNCHANGED <<dmVars, logVars, queryVars, fixVars, emoVars, runVars, extVars>>

GenNext == ApplyGenerate

SpecGenerate == GenInit /\ [][GenNext]_vars

-----------------------------------------------------------------------------
(* GigaChatManager: the access token *)

\* _get_access_token line 73: token_data.get("expires_in", 1800)
DEFAULT_EXPIRES_IN == 1800

\* line 74: timedelta(seconds=expires_in - 60)
EXPIRY_MARGIN == 60

\* the seconds between two readings of the time
TICK_SECONDS == 60

\* the longest time looked at, in readings
MaxTicks == 3

\* the most tokens the token endpoint hands out
MaxIssued == 3

\* the reply has no "expires_in"
NoExpiresIn == 0 - 1

\* what the token endpoint answers: kind "refused" (the request raises or the
\* status is an error), "granted" (with a token, or with an empty one when
\* present is FALSE), "bad_expiry" (a token and an "expires_in" that is not a
\* number)
TokenReply(kind, present, expires_in) ==
  [kind |-> kind, present |-> present, expires_in |-> expires_in]

ExpiresIn == {60, 120, NoExpiresIn}

TokenGrants ==
  {TokenReply("granted", p, e) : p \in BOOLEAN, e \in ExpiresIn}

TokenReplies ==
  TokenGrants \cup {TokenReply("refused", FALSE, NoExpiresIn),
                    TokenReply("bad_expiry", TRUE, NoExpiresIn)}

\* the token the reply carries when issued tokens were handed out before
granted_token(reply, issued) ==
  IF reply.present THEN issued + 1 ELSE NoToken

\* lines 73-74
expiry_of(reply, t) ==
  t + (IF reply.expires_in = NoExpiresIn THEN DEFAULT_EXPIRES_IN
       ELSE reply.expires_in) - EXPIRY_MARGIN

\* _get_access_token, lines 52-81: the token and the expiry held afterwards
\* and whether the call raised (line 81)
get_access_token(reply, token, expires, t, issued) ==
  CASE reply.kind = "refused" ->
         [access_token |-> token, token_expires_at |-> expires,
          raised |-> TRUE]
    [] reply.kind = "bad_expiry" ->
         [access_token |-> granted_token(reply, issued),
          token_expires_at |-> expires, raised |-> TRUE]
    [] OTHER ->
         [access_token |-> granted_token(reply, issued),
          token_expires_at |-> expiry_of(reply, t), raised |-> FALSE]

\* a token asked for only once the expiry time has passed
needs_token_after_expiry(token, t, expires) == token = NoToken \/ t > expires

\* _ensure_token line 85:
\* not self.access_token or datetime.now() >= self.token_expires_at
needs_token(token, t, expires) == token = NoToken \/ t >= expires

\* GigaChatManager.__init__ lines 39-49: the first token is fetched; a
\* constructor that raises leaves no manager behind
TokenInit ==
  /\ \E reply \in TokenGrants :
       LET got == get_access_token(reply, NoToken, 0, 0, 0)
       IN /\ access_token = got.access_token
          /\ token_expires_at = got.token_expires_at
          /\ tokens_issued = IF reply.present THEN 1 ELSE 0
  /\ wall_clock = 0
  /\ ensure_out = NoEnsure
  /\ ManagerIdle
  /\ FixIdle
  /\ EmoIdle
  /\ GenIdle
  /\ StreamIdle
  /\ ObsIdle
  /\ TtsIdle
  /\ AudIdle

\* time passes
Tick ==
  /\ wall_clock < MaxTicks * TICK_SECONDS
  /\ wall_clock' = wall_clock + TICK_SECONDS
  /\ UNCHANGED <<access_token, token_expires_at, tokens_issued, ensure_out>>
  /\ UNCHANGED <<dmVars, logVars, queryVars, fixVars, emoVars, genVars,
                 runVars, obsVars, ttsVars, audVars>>

\* _ensure_token, lines 83-87, while the token endpoint would answer reply
EnsureToken(reply) ==
  /\ tokens_issued < MaxIssued
  /\ LET need == needs_token(access_token, wall_clock, token_expires_at)
         got == IF need
                THEN get_access_token(reply, access_token, token_expires_at,
                                      wall_clock, tokens_issued)
                ELSE [access_token |-> access_token,
                      token_expires_at |-> token_expires_at, raised |-> FALSE]
     IN /\ access_token' = got.access_token
        /\ token_expires_at' = got.token_expires_at
        /\ tokens_issued' = IF need /\ got.access_token # access_token
                            THEN tokens_issued + 1 ELSE tokens_issued
        /\ ensure_out' =
             [called |-> TRUE, requests |-> IF need THEN 1 ELSE 0,
              raised |-> got.raised, token_before |-> access_token,
              expires_before |-> token_expires_at, at |-> wall_clock,
              granted |-> granted_token(reply, tokens_issued),
              expires_in |-> reply.expires_in]
  /\ UNCHANGED wall_clock
  /\ UNCHANGED <<dmVars, logVars, queryVars, fixVars, emoVars, genVars,
                 runVars, obsVars, ttsVars, audVars>>

TokenNext ==
  \/ Tick
  \/ \E reply \in TokenReplies : EnsureToken(reply)

SpecToken == TokenInit /\ [][TokenNext]_vars

-----------------------------------------------------------------------------
(* OBSController *)

\* one set_source_filter_enabled request: the source, the state asked for
\* and whether the overlay tool carried it out (it raises otherwise)
FilterRequest(source_name, enabled, accepted) ==
  [source_name |-> source_name, enabled |-> enabled, accepted |-> accepted]

\* _set_filter_state, lines 54-61: the filter states after the request; an
\* exception of the client is logged and swallowed
set_filter_state(filters, req) ==
  IF req.accepted
  THEN [filters EXCEPT ![req.source_name] = req.enabled]
  ELSE filters

\* the requests in the opposite order of states: the speaker dimmed
requests_for_dimming_speaker(agent_name, accepts) ==
  IF agent_name = "agent_1"
  THEN <<FilterRequest(WINDOW_CAPTURE, TRUE, accepts[1]),
         FilterRequest(WINDOW_CAPTURE_2, FALSE, accepts[2])>>
  ELSE IF agent_name = "agent_2"
  THEN <<FilterRequest(WINDOW_CAPTURE_2, TRUE, accepts[1]),
         FilterRequest(WINDOW_CAPTURE, FALSE, accepts[2])>>
  ELSE <<>>

\* set_active_speaker, lines 38-50: the requests made for agent_name
requests_for(agent_name, accepts) ==
  IF agent_name = "agent_1"
  THEN <<FilterRequest(WINDOW_CAPTURE, FALSE, accepts[1]),
         FilterRequest(WINDOW_CAPTURE_2, TRUE, accepts[2])>>
  ELSE IF agent_name = "agent_2"
  THEN <<FilterRequest(WINDOW_CAPTURE_2, FALSE, accepts[1]),
         FilterRequest(WINDOW_CAPTURE, TRUE, accepts[2])>>
  ELSE <<>>

RECURSIVE apply_requests(_, _)
apply_requests(filters, reqs) ==
  IF reqs = <<>> THEN filters
  ELSE apply_requests(set_filter_state(filters, Head(reqs)), Tail(reqs))

\* set_active_speaker, lines 29-52: the filter states afterwards, the
\* requests made and whether the call raised
set_active_speaker(filters, agent_name, accepts) ==
  LET reqs == requests_for(agent_name, accepts)
  IN [filters |-> apply_requests(filters, reqs), requests |-> reqs,
      raised |-> FALSE]

\* the most set_source_filter_enabled calls looked at
MaxFilterCalls == 6

\* the ids set_active_speaker is called with
SpeakerIds == {"agent_1", "agent_2", "agent_3"}

\* OBSController.__init__ went through; the scene has its filters in any state
ObsInit ==
  /\ filter_enabled \in [Sources -> BOOLEAN]
  /\ obs_out = NoSwitch
  /\ filter_calls = 0
  /\ TokIdle
  /\ ManagerIdle
  /\ FixIdle
  /\ EmoIdle
  /\ GenIdle
  /\ StreamIdle
  /\ TtsIdle
  /\ AudIdle

\* one call set_active_speaker(agent_name) while the overlay tool accepts
\* or rejects the requests as accepts says
SetActiveSpeaker(agent_name, accepts) ==
  /\ filter_calls < MaxFilterCalls
  /\ LET res == set_active_speaker(filter_enabled, agent_name, accepts)
     IN /\ filter_enabled' = res.filters
        /\ obs_out' = [called |-> TRUE, agent_name |-> agent_name,
                       raised |-> res.raised, requests |-> res.requests,
                       before |-> filter_enabled]
        /\ filter_calls' = filter_calls + Len(res.requests)
  /\ UNCHANGED <<dmVars, logVars, queryVars, fixVars, emoVars, genVars,
                 runVars, tokVars, ttsVars, audVars>>

ObsNext ==
  \E agent_name \in SpeakerIds, accepts \in [1..2 -> BOOLEAN] :
    SetActiveSpeaker(agent_name, accepts)

SpecObs == ObsInit /\ [][ObsNext]_vars

-----------------------------------------------------------------------------
(* TTSEngine *)

\* "Здравствуйте"
ZDRAVSTVUYTE ==
  <<1047, 1076, 1088, 1072, 1074, 1089, 1090, 1074, 1091, 1081, 1090, 1077>>

\* SaluteSpeechTTS.text_to_speech line 159: len(clean_text) > 1000
SALUTE_MAX_TEXT == 1000

\* "..."
THREE_DOTS == <<46, 46, 46>>

\* lines 289-291 (and 155-157): the text without its emotion tag
clean_for_speech(text) ==
  LET clean_text == strip(after_last_bracket(text))
  IN IF clean_text = <<>> THEN ZDRAVSTVUYTE ELSE clean_text

\* no agent_id is given (None)
NoAgent == ""

\* SaluteSpeechTTS.get_speaker_for_agent, line 232, with the map of lines
\* 88-91
salute_speaker_for_agent(agent_id) ==
  IF agent_id = "agent_1" THEN "Tur_24000" ELSE "Nec_24000"

\* SaluteSpeechTTS.text_to_speech, lines 141-228, for an available engine:
\* the path returned (NoPath for None) and the files afterwards; remote_ok:
\* whether the token, the synthesis request and the writing go through
salute_text_to_speech(text, voice, files, remote_ok) ==
  LET clean_text == clean_for_speech(text)
      cut == IF Len(clean_text) > SALUTE_MAX_TEXT
             THEN SubSeq(clean_text, 1, SALUTE_MAX_TEXT) \o THREE_DOTS
             ELSE clean_text
      filepath == AudioPath("salute", voice, cut)
  IN IF filepath \in files THEN [path |-> filepath, files |-> files]
     ELSE IF remote_ok
     THEN [path |-> filepath, files |-> files \cup {filepath}]
     ELSE [path |-> NoPath, files |-> files]

\* lines 317-320
silero_speaker_for(agent_id) ==
  IF agent_id = "agent_1" THEN "baya" ELSE "aidar"

\* lines 310-311: _init_silero is called before the try of line 332 and
\* re-raises (line 282) when the local engine cannot be loaded
local_engine(loaded, init_ok, local) ==
  [raised |-> ~loaded /\ ~init_ok, local |-> local]

\* what a local synthesis ends with
LocalOutcomes == {"ok", "synth_fails", "write_fails"}

\* TTSEngine.text_to_speech, lines 284-350
text_to_speech(text, agent_id, salute, available, loaded, files, remote_ok, init_ok, local) ==
  LET clean_text == clean_for_speech(text)
      tried == salute /\ available /\ agent_id # NoAgent
      remote == IF tried
                THEN salute_text_to_speech(
                       clean_text, salute_speaker_for_agent(agent_id), files,
                       remote_ok)
                ELSE [path |-> NoPath, files |-> files]
      engine == local_engine(loaded, init_ok, local)
      filepath == AudioPath("silero", silero_speaker_for(agent_id), clean_text)
  IN IF remote.path # NoPath
     THEN [raised |-> FALSE, path |-> remote.path, files |-> remote.files,
           loaded |-> loaded, remote |-> remote.path, local |-> ""]
     ELSE IF engine.raised
     THEN [raised |-> TRUE, path |-> NoPath, files |-> files,
           loaded |-> loaded, remote |-> NoPath, local |-> ""]
     ELSE IF filepath \in files
     THEN [raised |-> FALSE, path |-> filepath, files |-> files,
           loaded |-> TRUE, remote |-> NoPath, local |-> "cached"]
     ELSE IF engine.local = "ok"
     THEN [raised |-> FALSE, path |-> filepath,
           files |-> files \cup {filepath}, loaded |-> TRUE,
           remote |-> NoPath, local |-> "ok"]
     ELSE [raised |-> FALSE, path |-> SILENCE_FALLBACK_PATH, files |-> files,
           loaded |-> TRUE, remote |-> NoPath, local |-> engine.local]

\* the texts given to text_to_speech
TtsTexts == {ANSWER_GREETING, ANSWER_TAG_ONLY}

\* the agent_id arguments
TtsAgents == {NoAgent, "agent_1", "agent_2"}

\* TTSEngine.__init__, lines 237-251: the local engine is loaded unless the
\* remote one is enabled and available; a constructor that raises leaves
\* no engine behind
TtsInit ==
  /\ use_salute \in BOOLEAN
  /\ salute_available \in BOOLEAN
  /\ use_salute \/ ~salute_available
  /\ silero_engine = ~(use_salute /\ salute_available)
  /\ audio_temp = {}
  /\ tts_out = NoSpeech
  /\ TokIdle
  /\ ObsIdle
  /\ AudIdle
  /\ ManagerIdle
  /\ FixIdle
  /\ EmoIdle
  /\ GenIdle
  /\ StreamIdle

\* one call text_to_speech(text, agent_id=agent_id)
TextToSpeech(text, agent_id, remote_ok, init_ok, local) ==
  /\ LET res == text_to_speech(text, agent_id, use_salute, salute_available,
                               silero_engine, audio_temp, remote_ok, init_ok,
                               local)
     IN /\ silero_engine' = res.loaded
        /\ audio_temp' = res.files
        /\ tts_out' = [called |-> TRUE, agent_id |-> agent_id,
                       raised |-> res.raised, path |-> res.path,
                       remote |-> res.remote, local |-> res.local]
  /\ UNCHANGED <<use_salute, salute_available>>
  /\ UNCHANGED <<dmVars, logVars, queryVars, fixVars, emoVars, genVars,
                 runVars, tokVars, obsVars, audVars>>

TtsNext ==
  \E text \in TtsTexts, agent_id \in TtsAgents, remote_ok \in BOOLEAN,
     init_ok \in BOOLEAN, local \in LocalOutcomes :
    TextToSpeech(text, agent_id, remote_ok, init_ok, local)

SpecTts == TtsInit /\ [][TtsNext]_vars

-----------------------------------------------------------------------------
(* AudioRouter *)

\* VAC_DEVICE_MAP, lines 20-23
DEVICE_AGENT_1 == 15

DEVICE_AGENT_2 == 16

\* play_audio line 58: VAC_DEVICE_MAP.get(agent_id, 15)
DEFAULT_DEVICE == 15

\* an id that is not in the map played on the device of agent_2
device_for_second_default(agent_id) ==
  IF agent_id = "agent_1" THEN DEVICE_AGENT_1 ELSE DEVICE_AGENT_2

\* line 58
device_for(agent_id) ==
  IF agent_id = "agent_1" THEN DEVICE_AGENT_1
  ELSE IF agent_id = "agent_2" THEN DEVICE_AGENT_2
  ELSE DEFAULT_DEVICE

\* what a path can hold: nothing ("missing"), a file soundfile cannot read
\* ("unreadable"), a file of no samples ("empty"), of zeros ("silence"), of
\* samples below MIN_AMPLITUDE ("quiet"), or speech
FileKinds == {"missing", "unreadable", "empty", "silence", "quiet", "speech"}

\* what the fallback path holds after AudioRouter.__init__ (lines 46-55): the
\* half second of zeros, nothing when it could not be written, or a file
\* that was there before
FallbackKinds == {"silence", "missing", "empty"}

\* sf.read raises for these
read_fails(kind) == kind \in {"missing", "unreadable"}

\* line 91: max_amp < MIN_AMPLITUDE
below_min_amplitude(kind) == kind \in {"silence", "quiet"}

\* play_audio, lines 57-144: which file is played (input or fallback), on
\* which device, and what is returned; device_ok: sd.play and sd.wait go
\* through
play_audio(file, agent_id, fb, device_ok) ==
  LET device_id == device_for(agent_id)
      Fail == [raised |-> FALSE, returned |-> FALSE, played |-> "",
               device |-> device_id]
      Play(which) ==
        IF device_ok
        THEN [raised |-> FALSE, returned |-> TRUE, played |-> which,
              device |-> device_id]
        ELSE Fail
      \* the fallback read at lines 93-100 or 108-116 and played
      PlayFallback ==
        IF read_fails(fb) \/ fb = "empty" THEN Fail
        ELSE Play("fallback")
      \* lines 90-116 for the samples read from a file of this kind
      Normalised(kind, which) ==
        IF kind = "empty" THEN Fail
        ELSE IF below_min_amplitude(kind) THEN PlayFallback
        ELSE Play(which)
  IN IF file = "missing"
     THEN IF read_fails(fb) THEN Fail
          ELSE IF fb = "empty"
          THEN Fail
          ELSE Normalised(fb, "fallback")
     ELSE IF read_fails(file) THEN Fail
     ELSE IF file = "empty"
     THEN IF read_fails(fb) THEN Fail
          ELSE Normalised(fb, "fallback")
     ELSE Normalised(file, "input")

\* the agent_id arguments
PlayAgents == {"agent_1", "agent_2", "agent_3"}

\* AudioRouter.__init__, lines 31-34
AudInit ==
  /\ silence_fallback \in FallbackKinds
  /\ play_out = NoPlay
  /\ TokIdle
  /\ ObsIdle
  /\ TtsIdle
  /\ ManagerIdle
  /\ FixIdle
  /\ EmoIdle
  /\ GenIdle
  /\ StreamIdle

\* one call play_audio(file_path, agent_id, wait) for a path that holds a
\* file of kind file
PlayAudio(file, agent_id, wait, device_ok) ==
  /\ LET res == play_audio(file, agent_id, silence_fallback, device_ok)
     IN play_out' = [called |-> TRUE, file |-> file, agent_id |-> agent_id,
                     wait |-> wait, fallback |-> silence_fallback,
                     raised |-> res.raised, returned |-> res.returned,
                     played |-> res.played, device |-> res.device,
                     device_ok |-> device_ok]
  /\ UNCHANGED silence_fallback
  /\ UNCHANGED <<dmVars, logVars, queryVars, fixVars, emoVars, genVars,
                 runVars, tokVars, obsVars, ttsVars>>

AudNext ==
  \E file \in FileKinds, agent_id \in PlayAgents, wait \in BOOLEAN,
     device_ok \in BOOLEAN :
    PlayAudio(file, agent_id, wait, device_ok)

SpecAudio == AudInit /\ [][AudNext]_vars

-----------------------------------------------------------------------------
(* AIAvatarStream.run_stream *)

\* DialogManager.__init__ line 33: max_history: int = 10
DEFAULT_MAX_HISTORY == 10

\* the topic main gives run_stream (a non-empty string)
STREAM_TOPIC == Topic(TOPIC_TEXT)

\* the loop given up after a round that failed
loop_continues_until_failure(run, count, n, ok) == run /\ count < n /\ ok

\* the loop going on for one more round at the target count
loop_continues_past_target(run, count, n, ok) == run /\ count <= n

\* the loop going on after a stop signal
loop_continues_ignoring_stop(run, count, n, ok) == count < n

\* run_stream line 175: while self.running and self.dialog.reply_count < turns
loop_continues(run, count, n, ok) == run /\ count < n

\* what the generation service does in a round of the stream: it answers,
\* or its token cannot be refreshed
StreamScripts ==
  {Script(TRUE, "valid", <<Answer(ANSWER_GREETING, 25)>>),
   Script(TRUE, "failed", <<>>)}

\* the turn orders of the configuration the stream is run with
StreamOrders ==
  {<<"agent_1", "agent_2">>, <<"agent_2", "agent_1">>, <<"agent_3", "agent_1">>}

\* what text_to_speech ends with in the stream: the file of the text, the
\* path of the silence fallback, or an exception
SpeechResults == {"speech", "_silence_fallback", "raises"}

\* what run_stream and finish_stream leave alone
stream_frame ==
  /\ UNCHANGED <<fixVars, emoVars, genVars, tokVars, ttsVars, audVars>>

\* the variables of the stream that a step of a round leaves alone
round_frame == UNCHANGED <<stream_pc, running, turns, finish_calls, saved,
                           connected>>

\* AIAvatarStream.__init__ (the manager of line 72, with the turn order of
\* the configuration) and the call run_stream(turns, topic)
StreamInit ==
  /\ turn_order \in StreamOrders
  /\ max_history = DEFAULT_MAX_HISTORY
  /\ agent_queue = turn_order
  /\ history = <<>>
  /\ total_tokens = 0
  /\ reply_count = 0
  /\ start_time = 0
  /\ clock = 0
  /\ last = NoResult("init")
  /\ served = <<>>
  /\ appended = <<>>
  /\ returned_calls = 0
  /\ returned_tokens = 0
  /\ reply_calls = 0
  /\ all_failed = TRUE
  /\ log_file = NoLog
  /\ request = NoRequest
  /\ stats = NoStats
  /\ recent_out = NoRecent
  /\ stream_pc = "start"
  /\ running = TRUE
  /\ turns \in 0..MaxTurns
  /\ success = TRUE
  /\ failed_rounds = 0
  /\ stream_step = "idle"
  /\ audio_file = ""
  /\ last_play = NoStreamPlay
  /\ spoken = 0
  /\ finish_calls = 0
  /\ saved = "no"
  /\ connected = TRUE
  /\ FixIdle
  /\ EmoIdle
  /\ GenIdle
  /\ ExtIdle

\* signal_handler, lines 94-97: SIGINT or SIGTERM arrives while the stream
\* runs, between any two steps
StopSignal ==
  /\ stream_pc \in {"start", "loop", "finish"}
  /\ running
  /\ running' = FALSE
  /\ UNCHANGED <<stream_pc, turns, success, failed_rounds, stream_step,
                 audio_file, last_play, spoken, finish_calls, saved, connected>>
  /\ UNCHANGED <<dmVars, logVars, queryVars, obsVars>>
  /\ stream_frame

\* run_stream line 172: the dialog is reset before the loop
StreamStart ==
  /\ stream_pc = "start"
  /\ reset_dialog
  /\ stream_pc' = "loop"
  /\ UNCHANGED <<running, turns, success, failed_rounds, stream_step,
                 audio_file, last_play, spoken, finish_calls, saved, connected>>
  /\ UNCHANGED obsVars
  /\ stream_frame

\* the loop test of line 175 holds and run_dialog_round starts, lines
\* 111-124: get_next_reply while the generation service behaves as s says.
\* An exception is caught at line 152 and the round returns False.
RoundGenerate(s) ==
  /\ stream_pc = "loop"
  /\ stream_step = "idle"
  /\ loop_continues(running, reply_count, turns, success)
  /\ next_reply(IF reply_count = 0 THEN STREAM_TOPIC ELSE NoTopic, s)
  /\ IF last'.raised
     THEN /\ success' = FALSE
          /\ failed_rounds' = failed_rounds + 1
          /\ stream_step' = "idle"
     ELSE /\ stream_step' = "generated"
          /\ UNCHANGED <<success, failed_rounds>>
  /\ UNCHANGED <<audio_file, last_play, spoken>>
  /\ round_frame
  /\ UNCHANGED obsVars
  /\ stream_frame

\* the overlay tool carries out the requests of the stream
ACCEPTED == [i \in 1..2 |-> TRUE]

\* line 127: self.obs.set_active_speaker(agent_id)
RoundSwitch ==
  /\ stream_pc = "loop"
  /\ stream_step = "generated"
  /\ LET res == set_active_speaker(filter_enabled, last.agent_id, ACCEPTED)
     IN /\ filter_enabled' = res.filters
        /\ obs_out' = [called |-> TRUE, agent_name |-> last.agent_id,
                       raised |-> res.raised, requests |-> res.requests,
                       before |-> filter_enabled]
        /\ filter_calls' = filter_calls + Len(res.requests)
  /\ stream_step' = "switched"
  /\ UNCHANGED <<success, failed_rounds, audio_file, last_play, spoken>>
  /\ round_frame
  /\ UNCHANGED <<dmVars, logVars, queryVars>>
  /\ stream_frame

\* line 134: self.tts.text_to_speech(clean_text, agent_id=agent_id); an
\* exception is caught at line 152 and the round returns False
RoundSynthesize(speech) ==
  /\ stream_pc = "loop"
  /\ stream_step = "switched"
  /\ IF speech = "raises"
     THEN /\ success' = FALSE
          /\ failed_rounds' = failed_rounds + 1
          /\ stream_step' = "idle"
          /\ UNCHANGED audio_file
     ELSE /\ audio_file' = speech
          /\ stream_step' = "synthesized"
          /\ UNCHANGED <<success, failed_rounds>>
  /\ UNCHANGED <<last_play, spoken>>
  /\ round_frame
  /\ UNCHANGED <<dmVars, logVars, queryVars, obsVars>>
  /\ stream_frame

\* the reply was heard: its own file was given to play_audio and play_audio
\* returned True
counts_as_spoken(file, play_ok) == file = "speech" /\ play_ok

\* lines 140-150: the value play_audio returns is not looked at and the
\* round returns True
round_result(play_ok) == TRUE

\* lines 140-150: self.audio.play_audio(audio_file, agent_id=agent_id), which
\* returns play_ok, and the end of the round
RoundPlay(play_ok) ==
  /\ stream_pc = "loop"
  /\ stream_step = "synthesized"
  /\ last_play' = [made |-> TRUE, agent_id |-> last.agent_id,
                   farewell |-> FALSE, file |-> audio_file, ok |-> play_ok,
                   switched |-> obs_out.called, switch |-> obs_out.agent_name]
  /\ spoken' = IF counts_as_spoken(audio_file, play_ok) THEN spoken + 1
               ELSE spoken
  /\ success' = round_result(play_ok)
  /\ failed_rounds' = IF success' THEN failed_rounds ELSE failed_rounds + 1
  /\ stream_step' = "idle"
  /\ UNCHANGED audio_file
  /\ round_frame
  /\ UNCHANGED <<dmVars, logVars, queryVars, obsVars>>
  /\ stream_frame

\* the variables a step of finish_stream leaves alone
finish_frame == UNCHANGED <<running, turns, success, failed_rounds, spoken,
                            finish_calls>>

\* the loop test of line 175 fails and finish_stream is entered (line 197)
StreamFinish ==
  /\ stream_pc = "loop"
  /\ stream_step = "idle"
  /\ ~loop_continues(running, reply_count, turns, success)
  /\ stream_pc' = "finish"
  /\ stream_step' = "farewell"
  /\ finish_calls' = finish_calls + 1
  /\ UNCHANGED <<running, turns, success, failed_rounds, audio_file,
                 last_play, spoken, saved, connected>>
  /\ UNCHANGED <<dmVars, logVars, queryVars, obsVars>>
  /\ stream_frame

\* the participant who says the farewell, line 210
FAREWELL_AGENT == "agent_1"

\* finish_stream lines 205-223: the farewell text is synthesized; an
\* exception is caught at line 229
FarewellSynthesize(speech) ==
  /\ stream_pc = "finish"
  /\ stream_step = "farewell"
  /\ IF speech = "raises"
     THEN /\ stream_step' = "save"
          /\ UNCHANGED audio_file
     ELSE /\ audio_file' = speech
          /\ stream_step' = "farewell_play"
  /\ UNCHANGED <<stream_pc, last_play, saved, connected>>
  /\ finish_frame
  /\ UNCHANGED <<dmVars, logVars, queryVars, obsVars>>
  /\ stream_frame

\* line 224: self.audio.play_audio(audio_file, agent_id=agent_id)
FarewellPlay(play_ok) ==
  /\ stream_pc = "finish"
  /\ stream_step = "farewell_play"
  /\ last_play' = [made |-> TRUE, agent_id |-> FAREWELL_AGENT,
                   farewell |-> TRUE, file |-> audio_file, ok |-> play_ok,
                   switched |-> obs_out.called, switch |-> obs_out.agent_name]
  /\ stream_step' = "save"
  /\ UNCHANGED <<stream_pc, audio_file, saved, connected>>
  /\ finish_frame
  /\ UNCHANGED <<dmVars, logVars, queryVars, obsVars>>
  /\ stream_frame

\* line 233: self.dialog.save_dialog_log() (write_ok: the file could be
\* written; save_dialog_log logs a failed write and returns)
FinishSave(write_ok) ==
  /\ stream_pc = "finish"
  /\ stream_step = "save"
  /\ log_file' = IF write_ok
                 THEN dialog_data(start_time, clock, reply_count, total_tokens,
                                  turn_order, history)
                 ELSE log_file
  /\ saved' = IF write_ok THEN "written" ELSE "failed"
  /\ stream_step' = "statistics"
  /\ UNCHANGED <<stream_pc, audio_file, last_play, connected>>
  /\ finish_frame
  /\ UNCHANGED <<dmVars, request, queryVars, obsVars>>
  /\ stream_frame

\* lines 236-241: the statistics are read and logged; an exception of
\* get_statistics leaves finish_stream and run_stream, and main calls cleanup
\* (lines 287-290)
ShowStatistics ==
  /\ stream_pc = "finish"
  /\ stream_step = "statistics"
  /\ stats' = get_statistics(reply_count, total_tokens, history, agent_queue,
                             clock, start_time)
  /\ agent_queue' = current_turn(agent_queue).queue
  /\ last' = [NoResult("get_statistics") EXCEPT !.raised = stats'.raised]
  /\ clock' = clock + 1
  /\ stream_step' = IF stats'.raised THEN "cleanup" ELSE "reset"
  /\ UNCHANGED <<turn_order, max_history, history, total_tokens, reply_count,
                 start_time, served, appended, returned_calls, returned_tokens,
                 reply_calls, all_failed, request, recent_out, log_file>>
  /\ UNCHANGED <<stream_pc, audio_file, last_play, saved, connected>>
  /\ finish_frame
  /\ UNCHANGED obsVars
  /\ stream_frame

\* lines 244-248: the filters of both sources are switched off
ResetFilters ==
  /\ stream_pc = "finish"
  /\ stream_step = "reset"
  /\ LET reqs == <<FilterRequest(WINDOW_CAPTURE, FALSE, TRUE),
                   FilterRequest(WINDOW_CAPTURE_2, FALSE, TRUE)>>
     IN /\ filter_enabled' = apply_requests(filter_enabled, reqs)
        /\ filter_calls' = filter_calls + Len(reqs)
  /\ stream_step' = "cleanup"
  /\ UNCHANGED obs_out
  /\ UNCHANGED <<stream_pc, audio_file, last_play, saved, connected>>
  /\ finish_frame
  /\ UNCHANGED <<dmVars, logVars, queryVars>>
  /\ stream_frame

\* cleanup, lines 252-261: self.obs.disconnect()
Cleanup ==
  /\ stream_pc = "finish"
  /\ stream_step = "cleanup"
  /\ connected' = FALSE
  /\ stream_pc' = "done"
  /\ stream_step' = "idle"
  /\ UNCHANGED <<audio_file, last_play, saved>>
  /\ finish_frame
  /\ UNCHANGED <<dmVars, logVars, queryVars, obsVars>>
  /\ stream_frame

\* the steps of the program
StreamStep ==
  \/ StreamStart
  \/ \E s \in StreamScripts : RoundGenerate(s)
  \/ RoundSwitch
  \/ \E speech \in SpeechResults : RoundSynthesize(speech)
  \/ \E play_ok \in BOOLEAN : RoundPlay(play_ok)
  \/ StreamFinish
  \/ \E speech \in SpeechResults : FarewellSynthesize(speech)
  \/ \E play_ok \in BOOLEAN : FarewellPlay(play_ok)
  \/ \E write_ok \in BOOLEAN : FinishSave(write_ok)
  \/ ShowStatistics
  \/ ResetFilters
  \/ Cleanup

StreamNext ==
  \/ StopSignal
  \/ StreamStep

SpecStream == StreamInit /\ [][StreamNext]_vars

\* the interpreter goes on executing the program
SpecStreamFair == SpecStream /\ WF_vars(StreamStep)

-----------------------------------------------------------------------------
(* The claims *)

\* every participant of the turn order has a configuration entry
all_configured ==
  \A i \in 1..Len(turn_order) : ~get_agent_config_raises(turn_order[i])

\* the last call was get_next_reply and it returned
reply_returned == last.op = "get_next_reply" /\ ~last.raised

\* C1: get_next_reply never raises: whatever the generation service does and
\* whichever participant of the turn order is served, the call returns its
\* 4-tuple instead of propagating an exception.
C1_NeverRaises == last.op = "get_next_reply" => ~last.raised

\* C2: after N consecutive get_next_reply calls whose generation call fails
\* every time (it raises, or generate_response runs out of retries),
\* reply_count is N, no call has raised, and the text returned is the
\* fallback utterance of the participant served. Stated here for turn orders
\* whose participants all have a configuration entry.
C2_AllFailedGivesFillers ==
  (all_configured /\ all_failed /\ reply_calls > 0)
    => /\ reply_count = reply_calls
       /\ last.op = "get_next_reply"
            => /\ ~last.raised
               /\ last.full_text # <<>>
               /\ last.full_text = fallback(last.agent_id)

\* C3: whenever the generation call of a turn fails (generate_response raises
\* or runs out of retries), get_next_reply returns the fallback utterance of
\* the current participant with a token count of 10.
C3_FailureGivesFallbackAndTen ==
  (reply_returned /\ last.gen \in {"raised", "exhausted"})
    => /\ last.full_text = fallback(last.agent_id)
       /\ last.tokens = FALLBACK_TOKENS

\* C4: in every reachable state, for every max_history the manager is
\* constructed with, the history holds at most max_history entries.
C4_HistoryBounded == Len(history) <= max_history

\* the last k of the entries appended since the history was empty
last_appended(k) ==
  SubSeq(appended, Len(appended) - k + 1, Len(appended))

\* C5: after k appends on an empty history with max_history = m the history
\* holds exactly the last min(k, m) appended entries, in their order.
C5_KeepsLastEntries ==
  history = last_appended(IF Len(appended) < max_history
                          THEN Len(appended) ELSE max_history)

\* C6: turn selection is strict round-robin: the i-th call of get_next_agent
\* since construction or reset returns turn_order[i mod n]; with n >= 2 no
\* participant is served twice in a row; after every n calls the queue is
\* back in its starting order. The turn order lists each participant once.
C6_RoundRobin ==
  LET n == Len(turn_order) IN
  /\ \A i \in 1..Len(served) : served[i] = turn_order[((i - 1) % n) + 1]
  /\ \A i \in 1..(Len(served) - 1) : n >= 2 => served[i] # served[i + 1]
  /\ (Len(served) % n = 0) => agent_queue = turn_order

\* C6 witness: a turn order of three has been served one full cycle
C6_Witness ==
  /\ Len(turn_order) = 3
  /\ Len(served) = 3
  /\ agent_queue = turn_order

\* C7: reply_count is the number of get_next_reply calls that returned since
\* construction or the last reset, and total_tokens the sum of the token
\* counts they returned, a count of 0 included; dropping entries from the
\* history changes neither.
C7_CountersMatchReturnedCalls ==
  /\ reply_count = returned_calls
  /\ total_tokens = returned_tokens

\* C7 witness: three turns returned, the last with 0 tokens, and the history
\* has dropped entries
C7_Witness ==
  /\ returned_calls = 3
  /\ last.op = "get_next_reply"
  /\ last.tokens = 0
  /\ total_tokens > 0
  /\ max_history > 0
  /\ Len(history) < Len(appended)

\* C8: reset_dialog leaves the session in its initial state: history empty,
\* reply_count 0, total_tokens 0, the queue in the configured turn order; the
\* next participant served is turn_order[0].
C8_ResetRestoresInitialState ==
  /\ last.op = "reset_dialog"
       => /\ history = <<>>
          /\ reply_count = 0
          /\ total_tokens = 0
          /\ agent_queue = turn_order
  /\ Len(served) >= 1 => served[1] = turn_order[1]

\* C8 witness: a turn was served right after a reset that followed an
\* earlier call
C8_Witness ==
  /\ start_time = 1
  /\ reply_returned
  /\ reply_count = 1
  /\ served = <<turn_order[1]>>
  /\ Len(turn_order) >= 2

\* C9: for every participant and every text longer than 1000 characters,
\* _validate_and_fix_reply returns at most 1000 characters that end with "...".
C9_LongReplyCut ==
  (fix_done /\ Len(fix_text) > MAX_REPLY_LEN)
    => /\ Len(fix_out) <= MAX_REPLY_LEN
       /\ endswith(fix_out, ELLIPSIS)

\* C10: in every reachable state the content of every entry that
\* get_next_reply stored in the history has at most 1000 characters.
C10_StoredContentCapped ==
  \A i \in 1..Len(history) :
    history[i].role = "assistant" => Len(history[i].content) <= MAX_REPLY_LEN

\* the entries that get_next_reply stored
is_turn(entry) == entry.role = "assistant"
turns_of(entries) == SelectSeq(entries, is_turn)

\* C11: the transcript that save_dialog_log writes holds every turn produced
\* since construction or reset, in order, also when more than max_history
\* turns were produced.
C11_TranscriptHoldsEveryTurn ==
  (last.op = "save_dialog_log" /\ log_file.written
     /\ log_file.end_time = clock - 1)
    => turns_of(log_file.history) = turns_of(appended)

\* the role and content of every entry of the history, in order
role_and_content(hist) ==
  [i \in 1..Len(hist) |-> [role |-> hist[i].role, content |-> hist[i].content]]

\* C12 as stated: a turn builds the introduction prompt, with an empty
\* history, exactly when reply_count is 0 and a topic is supplied (any
\* string); every other turn sends the history; reset_dialog makes the next
\* turn first again.
C12_IntroWhenTopicSupplied ==
  [][/\ (reply_calls' = reply_calls + 1 /\ ~last'.raised) =>
          \A topic \in Topics :
            (\E s \in Scripts : GetNextReply(topic, s)) =>
            LET intro == reply_count = 0 /\ topic.given IN
            /\ request'.is_first_reply = intro
            /\ request'.history =
                 IF intro THEN <<>> ELSE role_and_content(history)
     /\ last'.op = "reset_dialog" => reply_count' = 0]_vars

\* C12 amended: the same with "a non-empty topic is supplied": an empty
\* string counts as no topic.
C12_IntroWhenTopicNonEmpty ==
  [][/\ (reply_calls' = reply_calls + 1 /\ ~last'.raised) =>
          \A topic \in Topics :
            (\E s \in Scripts : GetNextReply(topic, s)) =>
            LET intro == reply_count = 0 /\ topic.given /\ topic.text # <<>> IN
            /\ request'.is_first_reply = intro
            /\ request'.history =
                 IF intro THEN <<>> ELSE role_and_content(history)
     /\ last'.op = "reset_dialog" => reply_count' = 0]_vars

\* C12 witness: after a reset that followed a turn, the next turn built the
\* introduction prompt again
C12_Witness ==
  /\ start_time = 1
  /\ last.op = "get_next_reply"
  /\ returned_calls = 1
  /\ request.made
  /\ request.is_first_reply

\* C13: every record that get_next_reply stored in the history has non-empty
\* content: at least 5 characters after trimming, since an empty or
\* too-short generation is replaced by the filler before it is stored.
C13_StoredContentNotEmpty ==
  \A i \in 1..Len(history) :
    history[i].role = "assistant"
      => /\ history[i].content # <<>>
         /\ Len(strip(history[i].content)) >= MIN_REPLY_LEN

\* C13 witness: the stub answered "Да." (2 tokens) for agent_1 and the
\* record stored holds the filler of agent_1
C13_Witness ==
  /\ last.op = "get_next_reply"
  /\ last.agent_id = "agent_1"
  /\ last.tokens = 2
  /\ history # <<>>
  /\ history[Len(history)].content = EMPTY_FILLER_AGENT_1

\* C14: the clean text that get_next_reply returns for speech synthesis is
\* never empty, whatever the service answered.
C14_CleanTextNotEmpty == reply_returned => last.clean_text # <<>>

\* the input of the sanitizer is empty or shorter than 5 characters after
\* trimming
fix_text_short == fix_text = <<>> \/ Len(strip(fix_text)) < 5

\* C15: for every participant id and every input that is empty or shorter
\* than 5 characters after trimming, _validate_and_fix_reply returns the
\* filler of that participant (one for agent_1, another for every other
\* id), which is longer than 10 characters and differs from the input.
C15_ShortInputGivesFiller ==
  (fix_done /\ fix_text_short)
    => /\ fix_out = IF fix_agent = "agent_1"
                    THEN EMPTY_FILLER_AGENT_1 ELSE EMPTY_FILLER_OTHER
       /\ EMPTY_FILLER_AGENT_1 # EMPTY_FILLER_OTHER
       /\ Len(fix_out) > 10
       /\ fix_out # fix_text

\* C15 witness: a blank input for agent_3 gave the filler of the other ids
C15_Witness ==
  /\ fix_done
  /\ fix_agent = "agent_3"
  /\ fix_text = <<32, 32>>
  /\ fix_out = EMPTY_FILLER_OTHER

\* C16: for every participant and every input, the output of
\* _validate_and_fix_reply contains none of the denylisted address terms, in
\* any letter case, as a substring.
C16_NoForbiddenWordLeft ==
  fix_done =>
    \A k \in 1..Len(FORBIDDEN_WORDS) :
      ~contains(lower(fix_out), FORBIDDEN_WORDS[k])

\* "уверена"
UVERENA ==
  <<1091, 1074, 1077, 1088, 1077, 1085, 1072>>

\* "уверен"
UVEREN ==
  <<1091, 1074, 1077, 1088, 1077, 1085>>

\* the places of a text where a masculine form stands as a whole word, in
\* any letter case
masculine_at(text, form) == {i \in 1..Len(text) : pattern_at(text, form, i)}

\* C17: gender correction is applied only for agent_2. For agent_2 no listed
\* masculine form is left as a whole word, and a text that held the word
\* "уверен" holds "уверена"; for every other participant the output holds
\* each masculine form as often as the input, and an input of at most 1000
\* characters without a denylisted term comes back unchanged.
C17_GenderFixOnlyForAgent2 ==
  (fix_done /\ ~fix_text_short) =>
    IF fix_agent = "agent_2"
    THEN /\ \A k \in 1..Len(replacements) :
              masculine_at(fix_out, replacements[k][1]) = {}
         /\ (masculine_at(fix_text, UVEREN) # {} /\ Len(fix_text) <= MAX_REPLY_LEN)
              => contains(fix_out, UVERENA)
    ELSE Len(fix_text) <= MAX_REPLY_LEN =>
           /\ \A k \in 1..Len(replacements) :
                Cardinality(masculine_at(fix_out, replacements[k][1]))
                  = Cardinality(masculine_at(fix_text, replacements[k][1]))
           /\ (\A k \in 1..Len(FORBIDDEN_WORDS) :
                 ~contains(lower(fix_text), FORBIDDEN_WORDS[k]))
                => fix_out = fix_text

\* C17 witness: "Я уверен, что прав" was sanitized for agent_2 and came back
\* with "уверена"
C17_Witness ==
  /\ fix_done
  /\ fix_agent = "agent_2"
  /\ fix_text = HEAD_EXAMPLE
  /\ contains(fix_out, UVERENA)
  /\ masculine_at(fix_out, UVEREN) = {}

\* the tags of the participant's list that the text contains
known_tags == {emo_list[i] : i \in {j \in 1..Len(emo_list) : contains(emo_text, emo_list[j])}}

\* the places where a tag stands in a text
places(text, tag) == {i \in 1..Len(text) : occurs_at(text, tag, i)}

\* the text with the characters of the tag standing at place i taken out
without_at(text, tag, i) ==
  SubSeq(text, 1, i - 1) \o SubSeq(text, i + Len(tag), Len(text))

\* C18: _extract_emotion returns (tag, the text without the tag, trimmed)
\* when the text contains a tag of the participant's list, and
\* ("[НЕЙТРАЛЬНО]", the trimmed text) when it contains none.
C18_ExtractEmotion ==
  emo_done =>
    IF known_tags = {}
    THEN /\ emo_tag = default_emotion
         /\ emo_clean = strip(emo_text)
    ELSE /\ emo_tag \in known_tags
         /\ ~contains(emo_clean, emo_tag)
         /\ emo_clean = strip(emo_clean)
         /\ \A i \in places(emo_text, emo_tag) :
              places(emo_text, emo_tag) = {i}
                => emo_clean = strip(without_at(emo_text, emo_tag, i))

\* C18 witness: "[РАДОСТЬ] а б" gave ("[РАДОСТЬ]", "а б")
C18_Witness ==
  /\ emo_done
  /\ emo_text = TAG_JOY \o EMO_MIDDLE \o EMO_END
  /\ emo_tag = TAG_JOY
  /\ emo_clean = <<1072, 32, 1073>>

\* C19: when the text contains several tags of the participant's list,
\* _extract_emotion returns the one that stands first in the text, whatever
\* the order of the list.
C19_FirstTagInText ==
  (emo_done /\ known_tags # {}) =>
    \A tag \in known_tags :
      \A i \in places(emo_text, tag) :
        \E j \in places(emo_text, emo_tag) : j <= i

\* C20: _extract_emotion takes exactly one occurrence of the extracted tag
\* out of the text: its further occurrences, the other known tags and the
\* bracketed substrings that are not in the list all stay in the clean text.
C20_RemovesOneOccurrence ==
  (emo_done /\ known_tags # {}) =>
    /\ Cardinality(places(emo_clean, emo_tag))
         = Cardinality(places(emo_text, emo_tag)) - 1
    /\ \A tag \in (EmoTags \ {<<>>, emo_tag}) :
         Cardinality(places(emo_clean, tag)) = Cardinality(places(emo_text, tag))

\* C21: generate_response never raises: when every attempt fails, whatever the
\* failure is (network error, HTTP error status, 401 and 402 included,
\* malformed or empty answer, failing token refresh), it returns the sentinel
\* text with a token count of 0.
accepted(o) == o.kind = "answer" /\ Len(strip(o.answer)) >= MIN_ANSWER_LEN
all_attempts_fail ==
  \/ gen_ensure = "failed"
  \/ \A i \in 1..retry_count : ~accepted(gen_attempts[i])
C21_SentinelNeverRaises ==
  gen_done =>
    /\ ~gen_out.raised
    /\ all_attempts_fail => (gen_out.text = SENTINEL /\ gen_out.tokens = 0)

\* the number of failed attempts before the first accepted answer
\* (retry_count when no attempt is accepted)
RECURSIVE failed_before(_)
failed_before(i) ==
  IF i > retry_count \/ accepted(gen_attempts[i]) THEN 0
  ELSE 1 + failed_before(i + 1)

\* C22: generate_response makes at most retry_count completion requests and
\* stops at the first accepted answer: k failed attempts followed by a
\* success (k < retry_count) give exactly k + 1 requests and return that
\* answer (cleaned as lines 188-201 do) with its token count; retry_count
\* failures give exactly retry_count requests.
C22_RequestsUntilFirstSuccess ==
  gen_done =>
    LET k == failed_before(1) IN
    /\ gen_out.requests <= retry_count
    /\ IF k < retry_count
       THEN /\ gen_out.requests = k + 1
            /\ ~gen_out.raised
            /\ gen_out.text = cut_to_duration(strip(gen_attempts[k + 1].answer))
            /\ gen_out.tokens = gen_attempts[k + 1].tokens
       ELSE gen_out.requests = retry_count

\* the last k records of the history
last_records(k) == SubSeq(history, Len(history) - k + 1, Len(history))

\* C23: get_recent_history(n) returns the (role, content) projection of the
\* last min(n, len(history)) records in their order, for every n >= 0, n = 0
\* included; with n omitted it returns all the records kept.
C23_RecentHistoryLastN ==
  last.op = "get_recent_history" =>
    LET n == recent_out.n
        k == IF n.given /\ n.value < Len(history)
             THEN n.value ELSE Len(history)
    IN recent_out.result = role_and_content(last_records(k))

\* C24: get_statistics never divides by zero: average_tokens_per_reply is 0
\* when reply_count is 0 (fresh or reset session) and
\* total_tokens / reply_count otherwise.
C24_AverageWithoutZeroDivision ==
  last.op = "get_statistics" =>
    LET average == stats.average_tokens_per_reply IN
    /\ ~stats.raised
    /\ average.den # 0
    /\ reply_count = 0 => average.num = 0
    /\ reply_count > 0 => average.num * reply_count = total_tokens * average.den

\* C24 witness: the statistics of a session that was reset after a turn
C24_Witness ==
  /\ last.op = "get_statistics"
  /\ request.made
  /\ start_time > 0
  /\ reply_count = 0
  /\ stats.made
  /\ stats.average_tokens_per_reply.num = 0

\* queue is order rotated by k places
rotated_by(queue, order, k) ==
  /\ Len(queue) = Len(order)
  /\ \A i \in 1..Len(order) : queue[i] = order[((i - 1 + k) % Len(order)) + 1]

QueryOps ==
  {"get_statistics", "get_dialog_summary", "get_recent_history",
   "save_dialog_log"}

\* C26: get_statistics, get_dialog_summary, get_recent_history and
\* save_dialog_log leave the session state (history, agent queue,
\* reply_count, total_tokens) unchanged.
C26_QueriesLeaveSessionUnchanged ==
  [][last'.op \in QueryOps =>
       UNCHANGED <<history, agent_queue, reply_count, total_tokens>>]_vars

\* C26 witness: after a turn, the recent history and then the summary were
\* asked for, and the session still is as the turn left it
C26_Witness ==
  /\ last.op = "get_dialog_summary"
  /\ stats.summary
  /\ recent_out.asked
  /\ reply_count = 1
  /\ Len(history) = 1
  /\ agent_queue = rotate(turn_order)

\* C27: an error while producing or playing one turn never ends the stream:
\* after a round that failed run_stream is back at its loop test, and the
\* loop ends only when reply_count has reached the target turn count or a
\* stop signal was received.
C27_FailedRoundDoesNotEndStream ==
  [][/\ failed_rounds' > failed_rounds => stream_pc' = "loop"
     /\ (stream_pc = "loop" /\ stream_pc' # "loop")
          => (reply_count >= turns \/ ~running)]_vars

\* C27 witness: a stream that had a failed round went on, reached its target
\* turn count without a stop signal and finished
C27_Witness ==
  /\ stream_pc = "done"
  /\ failed_rounds >= 1
  /\ running
  /\ turns >= 1
  /\ reply_count = turns

\* C28: after any sequence of get_next_reply and reset_dialog calls, whatever
\* their outcome, the participant at the head of the queue is
\* turn_order[reply_count mod n]: the queue is never advanced for a turn that
\* is not counted. (Len(served) = reply_calls: get_next_agent was not called
\* on its own since construction or the last reset.)
C28_QueueInStepWithCount ==
  Len(served) = reply_calls =>
    Head(agent_queue) = turn_order[(reply_count % Len(turn_order)) + 1]

\* C29: when get_next_reply returns (agent id, full text, clean text,
\* tokens), the newest history record has role "assistant", content equal to
\* the full text returned (emotion tag included), agent_id equal to the id
\* returned and tokens equal to the count returned; the records that were in
\* the history before are not modified (they are kept as they were, or
\* dropped from the front).
C29_NewestRecordIsTheReply ==
  [][(last'.op = "get_next_reply" /\ ~last'.raised) =>
       /\ history' # <<>>
       /\ LET newest == history'[Len(history')] IN
          /\ newest.role = "assistant"
          /\ newest.content = last'.full_text
          /\ newest.agent_id = last'.agent_id
          /\ newest.tokens = last'.tokens
          /\ \E k \in 0..Len(history) :
               history' = SubSeq(history, k + 1, Len(history)) \o <<newest>>]_vars

\* C29 witness: a turn returned a text with its emotion tag while the
\* history already held a record, and both records are kept
C29_Witness ==
  /\ reply_returned
  /\ Len(history) = 2
  /\ history[1].role = "user"
  /\ history[2].role = "assistant"
  /\ history[2].content = last.full_text
  /\ last.full_text # last.clean_text

\* C30: the request that get_next_reply sends for a turn carries only records
\* of earlier turns, in their order, never the turn being produced: at most
\* max_history of them leave the DialogManager, and at most the 10 most
\* recent are placed after the system prompt by generate_response.
C30_RequestCarriesEarlierRecords ==
  [][(last'.op = "get_next_reply" /\ ~last'.raised) =>
       LET sent == request'.history
           placed == messages_after_prompt(sent)
       IN
       /\ Len(sent) <= max_history
       /\ \E k \in 0..Len(history) :
            sent = role_and_content(SubSeq(history, k + 1, Len(history)))
       /\ Len(placed) <= HISTORY_WINDOW
       /\ placed = SubSeq(sent, Len(sent) - Len(placed) + 1, Len(sent))]_vars

\* a rule for several words: its pattern holds a space
multi_word(rule) == \E i \in 1..Len(rule[1]) : rule[1][i] = 32

\* C31: in the gender-correction rule list every multi-word rule comes
\* before every single-word rule whose pattern it contains, and applying the
\* list in this order (to a reply of agent_2) gives a text in which no listed
\* masculine form remains as a whole word.
C31_PhrasesBeforeWords ==
  /\ \A i, j \in 1..Len(replacements) :
       (/\ multi_word(replacements[i])
        /\ ~multi_word(replacements[j])
        /\ contains(replacements[i][1], replacements[j][1])) => i < j
  /\ (fix_done /\ fix_agent = "agent_2") =>
       \A k \in 1..Len(replacements) :
         masculine_at(fix_out, replacements[k][1]) = {}

\* C31 witness: "Я был очень рад " was sanitized for agent_2: the phrase
\* rule and the word rule have both been applied
C31_Witness ==
  /\ fix_done
  /\ fix_agent = "agent_2"
  /\ fix_text = HEAD_MIXED
  /\ masculine_at(fix_text, replacements[2][1]) # {}
  /\ masculine_at(fix_text, replacements[13][1]) # {}
  /\ contains(fix_out, replacements[2][2])
  /\ contains(fix_out, replacements[13][2])

\* the characters of a text that are not whitespace
non_blank(text) == Cardinality({i \in 1..Len(text) : ~IsSpace(text[i])})

\* C32 as stated: generate_response never returns a backend answer with fewer
\* than 10 non-blank characters: such an answer is a failed attempt, retried
\* while attempts remain, and replaced on the last attempt by the sentinel
\* text with a token count of 0.
C32_NoAnswerUnderTenNonBlank ==
  (gen_done /\ ~gen_out.raised) =>
    \A i \in 1..gen_out.requests :
      (gen_attempts[i].kind = "answer"
         /\ non_blank(gen_attempts[i].answer) < MIN_ANSWER_LEN)
      => \/ i < gen_out.requests
         \/ /\ i = retry_count
            /\ gen_out.text = SENTINEL
            /\ gen_out.tokens = 0

\* C32 amended: the same for an answer of fewer than 10 characters once
\* leading and trailing whitespace is removed (blanks inside the answer
\* count); an answer that is returned has at least 10 characters.
C32_NoAnswerUnderTenTrimmed ==
  (gen_done /\ ~gen_out.raised) =>
    /\ \A i \in 1..gen_out.requests :
         (gen_attempts[i].kind = "answer"
            /\ Len(strip(gen_attempts[i].answer)) < MIN_ANSWER_LEN)
         => \/ i < gen_out.requests
            \/ /\ i = retry_count
               /\ gen_out.text = SENTINEL
               /\ gen_out.tokens = 0
    /\ Len(gen_out.text) >= MIN_ANSWER_LEN

\* C32 witness: "Да." was answered twice and then an answer of 10 characters
\* with blanks inside, which was returned at the third request
C32_Witness ==
  /\ gen_done
  /\ ~gen_out.raised
  /\ gen_attempts[1] = Answer(ANSWER_SHORT, 2)
  /\ gen_attempts[2] = Answer(ANSWER_SHORT, 2)
  /\ gen_attempts[3] = Answer(ANSWER_SPACED, 4)
  /\ gen_out.requests = 3
  /\ gen_out.text = ANSWER_SPACED

\* C33: _ensure_token asks the token endpoint for a token exactly when no
\* token is held or the time has reached token_expires_at; a token that is
\* still valid is kept as it is; after a refresh that went through the held
\* token is the granted one and the expiry is the one computed from it.
C33_RefreshExactlyWhenDue ==
  ensure_out.called =>
    /\ (ensure_out.requests = 1) <=>
         (\/ ensure_out.token_before = NoToken
          \/ ensure_out.at >= ensure_out.expires_before)
    /\ ensure_out.requests = 0 =>
         /\ ~ensure_out.raised
         /\ access_token = ensure_out.token_before
         /\ token_expires_at = ensure_out.expires_before
    /\ (ensure_out.requests = 1 /\ ~ensure_out.raised) =>
         /\ access_token = ensure_out.granted
         /\ token_expires_at =
              ensure_out.at + (IF ensure_out.expires_in = NoExpiresIn
                               THEN DEFAULT_EXPIRES_IN
                               ELSE ensure_out.expires_in) - EXPIRY_MARGIN

\* C33 witness: a token was held and the time had just reached its expiry;
\* the call fetched another token, now held, with a later expiry
C33_Witness ==
  /\ ensure_out.called
  /\ ensure_out.token_before # NoToken
  /\ ensure_out.at = ensure_out.expires_before
  /\ ensure_out.at > 0
  /\ ensure_out.requests = 1
  /\ ~ensure_out.raised
  /\ access_token # NoToken
  /\ access_token # ensure_out.token_before
  /\ token_expires_at > ensure_out.expires_before

\* C38 as stated: after set_active_speaker(X) has returned for X agent_1 or
\* agent_2 the dimming filter is off on X's source and on on the other one;
\* for any other id no filter state has changed; the call never raises, also
\* when the overlay tool rejects a request.
C38_SpeakerUndimmedOtherDimmed ==
  obs_out.called =>
    /\ ~obs_out.raised
    /\ obs_out.agent_name = "agent_1" =>
         /\ ~filter_enabled[WINDOW_CAPTURE]
         /\ filter_enabled[WINDOW_CAPTURE_2]
    /\ obs_out.agent_name = "agent_2" =>
         /\ ~filter_enabled[WINDOW_CAPTURE_2]
         /\ filter_enabled[WINDOW_CAPTURE]
    /\ obs_out.agent_name \notin {"agent_1", "agent_2"} =>
         filter_enabled = obs_out.before

\* whether the last call made a request on src that the tool carried out
carried_out(src) ==
  \E i \in 1..Len(obs_out.requests) :
    obs_out.requests[i].source_name = src /\ obs_out.requests[i].accepted

\* C38 amended: set_active_speaker(X) asks for the filter off on X's source
\* and then for the filter on on the other source; a request the overlay
\* tool carries out takes effect, a rejected one leaves that filter as it
\* was; for any other id nothing is asked and nothing changes; the call
\* never raises.
C38_RequestsTakeEffectWhenAccepted ==
  obs_out.called =>
    /\ ~obs_out.raised
    /\ obs_out.agent_name = "agent_1" =>
         /\ Len(obs_out.requests) = 2
         /\ obs_out.requests[1].source_name = WINDOW_CAPTURE
         /\ obs_out.requests[2].source_name = WINDOW_CAPTURE_2
         /\ filter_enabled[WINDOW_CAPTURE] =
              IF carried_out(WINDOW_CAPTURE) THEN FALSE
              ELSE obs_out.before[WINDOW_CAPTURE]
         /\ filter_enabled[WINDOW_CAPTURE_2] =
              IF carried_out(WINDOW_CAPTURE_2) THEN TRUE
              ELSE obs_out.before[WINDOW_CAPTURE_2]
    /\ obs_out.agent_name = "agent_2" =>
         /\ Len(obs_out.requests) = 2
         /\ obs_out.requests[1].source_name = WINDOW_CAPTURE_2
         /\ obs_out.requests[2].source_name = WINDOW_CAPTURE
         /\ filter_enabled[WINDOW_CAPTURE_2] =
              IF carried_out(WINDOW_CAPTURE_2) THEN FALSE
              ELSE obs_out.before[WINDOW_CAPTURE_2]
         /\ filter_enabled[WINDOW_CAPTURE] =
              IF carried_out(WINDOW_CAPTURE) THEN TRUE
              ELSE obs_out.before[WINDOW_CAPTURE]
    /\ obs_out.agent_name \notin {"agent_1", "agent_2"} =>
         /\ obs_out.requests = <<>>
         /\ filter_enabled = obs_out.before

\* C38 witness: agent_2 was dimmed and agent_1 not; set_active_speaker for
\* agent_2 had its first request carried out and its second one rejected, so
\* no source is dimmed now
C38_Witness ==
  /\ obs_out.called
  /\ obs_out.agent_name = "agent_2"
  /\ obs_out.before[WINDOW_CAPTURE_2]
  /\ ~obs_out.before[WINDOW_CAPTURE]
  /\ obs_out.requests[1].accepted
  /\ ~obs_out.requests[2].accepted
  /\ ~filter_enabled[WINDOW_CAPTURE_2]
  /\ ~filter_enabled[WINDOW_CAPTURE]

\* C39: TTSEngine.text_to_speech always returns a path and does not raise:
\* the file of the remote engine when that engine is enabled, available and
\* gave a file; otherwise the file of the local engine; and the path of the
\* silence fallback when the local synthesis or the writing failed.
C39_AlwaysReturnsAPath ==
  tts_out.called =>
    /\ ~tts_out.raised
    /\ tts_out.path # NoPath
    /\ IF use_salute /\ salute_available /\ tts_out.remote # NoPath
       THEN tts_out.path = tts_out.remote /\ tts_out.path.engine = "salute"
       ELSE IF tts_out.local \in {"synth_fails", "write_fails"}
       THEN tts_out.path = SILENCE_FALLBACK_PATH
       ELSE tts_out.path.engine = "silero"

\* the input of the last play_audio call could not be played as it is
replaced_input ==
  play_out.file \in {"missing", "empty", "silence", "quiet"}

\* C40: play_audio never raises; it returns True exactly when a playback
\* was started and False after a read or playback error; for a missing,
\* empty or silent input the silence fallback is what is played, and True is
\* returned when the fallback can be read and the device plays it; an id
\* that is not in the device map plays on the default device 15.
C40_PlayAudioNeverRaises ==
  play_out.called =>
    /\ ~play_out.raised
    /\ play_out.returned <=> play_out.played # ""
    /\ replaced_input => play_out.played # "input"
    /\ (replaced_input /\ play_out.fallback = "silence" /\ play_out.device_ok)
         => (play_out.returned /\ play_out.played = "fallback")
    /\ (play_out.file = "speech" /\ play_out.device_ok)
         => (play_out.returned /\ play_out.played = "input")
    /\ (play_out.file = "unreadable" \/ ~play_out.device_ok)
         => ~play_out.returned
    /\ play_out.device = (IF play_out.agent_id = "agent_1" THEN 15
                          ELSE IF play_out.agent_id = "agent_2" THEN 16
                          ELSE 15)

\* C40 witness: a file that is missing was given for an id outside the
\* device map; the fallback was played on device 15 and True was returned
C40_Witness ==
  /\ play_out.called
  /\ play_out.file = "missing"
  /\ play_out.agent_id = "agent_3"
  /\ play_out.returned
  /\ play_out.played = "fallback"
  /\ play_out.device = 15

\* C34: run_stream(turns) without a stop signal always terminates: whatever
\* the generation service, the synthesis and the playback do, finish_stream
\* is reached, and reply_count then equals turns, never more.
C34_StreamEndsAtTargetCount ==
  /\ <>(~running \/ (finish_calls = 1 /\ reply_count = turns))
  /\ <>(stream_pc = "done")
  /\ []((finish_calls = 1 /\ running) => reply_count = turns)
  /\ [](running => reply_count <= turns)

\* C34 witness: a stream of two turns without a stop signal in which no
\* request was answered and nothing was played has finished with two replies
C34_Witness ==
  /\ stream_pc = "done"
  /\ running
  /\ turns = MaxTurns
  /\ reply_count = turns
  /\ all_failed
  /\ spoken = 0
  /\ failed_rounds >= 1

C36_HeardSpeakerIsHighlighted ==
  last_play.made =>
    (last_play.switched /\ last_play.switch = last_play.agent_id)

\* C37: run_dialog_round returns True only when the reply was played, so at
\* the end of the stream every reply counted in reply_count was spoken.
C37_CountedRepliesWereSpoken ==
  /\ (success /\ last_play.made /\ ~last_play.farewell)
       => counts_as_spoken(last_play.file, last_play.ok)
  /\ stream_pc = "done" => spoken = reply_count
====
